---- MODULE Spec2Model ----
(***************************************************************************)
(* frigidaire-bot: the conversation store, the provider registry and the   *)
(* agent orchestrator's turn (handleMention), as a state machine.          *)
(*                                                                         *)
(* Time is Date.now() in milliseconds.  An optional value (T | undefined)  *)
(* is a record [some |-> FALSE] or [some |-> TRUE, val |-> v].             *)
(***************************************************************************)
EXTENDS Integers, Sequences, FiniteSets, TLC

\* ------------------------------------------------------------------ bounds

\* Clock advances allowed in the store-only specification.
MaxStoreTicks == 3

\* ------------------------------------------------------- program constants

\* const CONVERSATION_TIMEOUT = 5 * 60 * 1000
CONVERSATION_TIMEOUT == 300000

Channels == {"c1", "c2"}

\* The backends providerRegistry.ts can register that are under src/ with
\* their adapters' traits: openai returns no continuation data, grok may.
ProviderIds == {"openai", "grok"}

\* How far the clock moves in one step: one millisecond, or a whole timeout.
TickDeltas == {1, CONVERSATION_TIMEOUT}

\* ------------------------------------------------------------ optionals

None == [some |-> FALSE]

Some(v) == [some |-> TRUE, val |-> v]

\* ------------------------------------------------------- conversation data

\* thoughts?: unknown -- undefined, or the blob a chat call of provider
\* `by` returned in call `call` of turn `turn`.
NoThoughts == [by |-> "none", turn |-> 0, call |-> 0]

Thoughts(p, t, k) == [by |-> p, turn |-> t, call |-> k]

\* a ?? b on continuation data
Coalesce(a, b) == IF a # NoThoughts THEN a ELSE b

\* ConversationEntry, one record shape for the three kinds.
DevEntry(p) ==
  [kind |-> "message", role |-> "developer", id |-> <<>>, name |-> "-", content |-> <<"prompt", p>>]

UserEntry(t) ==
  [kind |-> "message", role |-> "user", id |-> <<t>>, name |-> "-", content |-> <<"mention">>]

HistEntry(r, mid) ==
  [kind |-> "message", role |-> r, id |-> <<mid>>, name |-> "-", content |-> <<"history">>]

AssistantEntry(t, k) ==
  [kind |-> "message", role |-> "assistant", id |-> <<t, k>>, name |-> "-", content |-> <<"text">>]

ToolCallEntry(i, n, a) ==
  [kind |-> "tool_call", role |-> "-", id |-> i, name |-> n, content |-> <<a>>]

ToolResultEntry(i, n, c) ==
  [kind |-> "tool_result", role |-> "-", id |-> i, name |-> n, content |-> c]

\* ConversationState
State(p, e, ts, th) ==
  [providerId |-> p, entries |-> e, timestamp |-> ts, thoughts |-> th]

\* -------------------------------------------------------- ConversationStore
\* The store is the Map: a function whose domain is the channels it holds.

MapSet(m, c, s) == [x \in (DOMAIN m) \cup {c} |-> IF x = c THEN s ELSE m[x]]

MapDelete(m, c) == [x \in (DOMAIN m) \ {c} |-> m[x]]

\* Expiry that already counts a state idle for exactly the timeout as expired.
ExpiredAtTimeout(s, t) == t - s.timestamp >= CONVERSATION_TIMEOUT

Expired(s, t) == t - s.timestamp > CONVERSATION_TIMEOUT

\* get(channelId): the returned value
GetRet(m, t, c) ==
  IF c \notin DOMAIN m THEN None
  ELSE IF Expired(m[c], t) THEN None
  ELSE Some(m[c])

\* get(channelId): the map afterwards
GetMap(m, t, c) ==
  IF c \in DOMAIN m /\ Expired(m[c], t) THEN MapDelete(m, c) ELSE m

\* A set that merges: the new entries go behind the ones already stored.
SetMapMerging(m, c, s) ==
  IF c \in DOMAIN m
    THEN MapSet(m, c, [s EXCEPT !.entries = m[c].entries \o @])
    ELSE MapSet(m, c, s)

\* set(channelId, state)
SetMap(m, c, s) == MapSet(m, c, s)

\* update that rebuilds the state from the new entries and forgets the
\* continuation data.
UpdateDroppingThoughts(m, t, c, e) ==
  LET existing == GetRet(m, t, c)
      m1 == GetMap(m, t, c)
  IN IF ~existing.some THEN m1
     ELSE MapSet(m1, c, State(existing.val.providerId, e, t, NoThoughts))

\* update(channelId, entries)
UpdateMap(m, t, c, e) ==
  LET existing == GetRet(m, t, c)
      m1 == GetMap(m, t, c)
  IN IF ~existing.some THEN m1
     ELSE MapSet(m1, c, [existing.val EXCEPT !.entries = e, !.timestamp = t])

\* touch without the guard on a missing state.
TouchUnguarded(m, t, c) ==
  LET existing == GetRet(m, t, c)
      m1 == GetMap(m, t, c)
  IN IF ~existing.some THEN MapSet(m1, c, State("-", <<>>, t, NoThoughts))
     ELSE MapSet(m1, c, [existing.val EXCEPT !.timestamp = t])

\* touch(channelId)
TouchMap(m, t, c) ==
  LET existing == GetRet(m, t, c)
      m1 == GetMap(m, t, c)
  IN IF ~existing.some THEN m1
     ELSE MapSet(m1, c, [existing.val EXCEPT !.timestamp = t])

\* switchProvider that also puts a developer entry for the new provider in
\* front of the entries on every call.
SwitchProviderPrepending(m, t, c, p) ==
  LET existing == GetRet(m, t, c)
      m1 == GetMap(m, t, c)
  IN IF ~existing.some THEN m1
     ELSE MapSet(m1, c, [existing.val EXCEPT !.providerId = p, !.timestamp = t,
                                             !.entries = <<DevEntry(p)>> \o @])

\* switchProvider(channelId, providerId)
SwitchProviderMap(m, t, c, p) ==
  LET existing == GetRet(m, t, c)
      m1 == GetMap(m, t, c)
  IN IF ~existing.some THEN m1
     ELSE MapSet(m1, c, [existing.val EXCEPT !.providerId = p, !.timestamp = t])

\* A pruneExpired that empties the store.
PruneMapEverything(m, t) == << >>

\* pruneExpired()
PruneMap(m, t) == [x \in {c \in DOMAIN m : ~Expired(m[c], t)} |-> m[x]]

\* --------------------------------------------------------- providerRegistry
\* providers: the ids registered (an adapter is immutable, so its id stands
\* for it); pins: channelProviders; creds: the backends whose credential is
\* set in process.env; dflt: defaultProviderId.

\* ensureProvidersRegistered(): the providers map afterwards
EnsureRegistered(provs, cr) == IF provs # {} THEN provs ELSE cr

\* What ensureProvidersRegistered has done so far: the passes through its
\* body (lines 16-50) and the adapters those constructed.
NoPasses == [passes |-> 0, built |-> 0]

\* ensureProvidersRegistered(): the log afterwards
EnsureLog(provs, cr, log) ==
  IF provs # {} THEN log
  ELSE [passes |-> log.passes + 1, built |-> log.built + Cardinality(cr)]

\* getProvider(providerId), on the registered map
GetProvider(provs, dflt, pid) ==
  IF pid \in provs THEN Some(pid)
  ELSE IF dflt \in provs THEN Some(dflt)
  ELSE None

\* A getProviderForChannel that does not look at the channel's pin.
GetProviderForChannelUnpinned(provs, pins, dflt, c) == GetProvider(provs, dflt, dflt)

\* getProviderForChannel(channelId), on the registered map
GetProviderForChannel(provs, pins, dflt, c) ==
  LET providerId == IF c \in DOMAIN pins THEN pins[c] ELSE dflt
  IN GetProvider(provs, dflt, providerId)

\* A setProviderForChannel that pins before it looks the provider up.
SetProviderPinFirst(provs, pins, c, pid) ==
  IF pid \notin provs
    THEN [provider |-> None, error |-> Some(pid), pins |-> MapSet(pins, c, pid)]
    ELSE [provider |-> Some(pid), error |-> None, pins |-> MapSet(pins, c, pid)]

\* A setProviderForChannel that keeps one pin for the whole process.
SetProviderEverywhere(provs, pins, c, pid) ==
  IF pid \notin provs
    THEN [provider |-> None, error |-> Some(pid), pins |-> pins]
    ELSE [provider |-> Some(pid), error |-> None,
          pins |-> [x \in Channels |-> pid]]

\* setProviderForChannel(channelId, providerId), on the registered map:
\* the result ({provider} or {error}) and channelProviders afterwards
SetProviderForChannel(provs, pins, c, pid) ==
  IF pid \notin provs
    THEN [provider |-> None, error |-> Some(pid), pins |-> pins]
    ELSE [provider |-> Some(pid), error |-> None, pins |-> MapSet(pins, c, pid)]

\* ------------------------------------------------------- adapters and tools

\* toolDefinitions
ToolCatalog == {"summarize_messages", "generate_image", "switch_provider"}

\* supportedTools of an adapter: the catalog's tools flagged host-handled,
\* then the two backend-native tools.
SupportedTools(p) ==
  {[name |-> n, hostHandled |-> TRUE] : n \in ToolCatalog}
    \cup {[name |-> n, hostHandled |-> FALSE] : n \in {"web_search", "code_interpreter"}}

\* Array.prototype.reverse
Reverse(s) == [i \in 1..Len(s) |-> s[Len(s) + 1 - i]]

\* providerTool?.hostHandled ?? false
HostHandled(p, n) ==
  \E tool \in SupportedTools(p) : tool.name = n /\ tool.hostHandled

\* Does a chat call of this adapter ever return continuation data?
ReturnsThoughts(p) == p = "grok"

\* A filter that hands the host-handled calls over last one first.
HostHandledCallsReversed(p, calls) ==
  Reverse(SelectSeq(calls, LAMBDA call : HostHandled(p, call.name)))

\* A filter that lets every returned call through.
HostHandledCallsUnfiltered(p, calls) == calls

\* hostHandledCalls: firstResponse.toolCalls.filter(...)
HostHandledCalls(p, calls) ==
  SelectSeq(calls, LAMBDA call : HostHandled(p, call.name))

\* outputEntries of parseResponse: one tool_call per call, then the text
OutputEntries(r, t, k) ==
  [i \in 1..Len(r.calls) |-> ToolCallEntry(r.calls[i].id, r.calls[i].name, r.calls[i].arg)]
    \o (IF r.text THEN <<AssistantEntry(t, k)>> ELSE <<>>)

\* A refresh that always puts the new developer entry in front.
RefreshDeveloperMessagePrepending(entries, p) == <<DevEntry(p)>> \o entries

\* refreshDeveloperMessage(entries, botName, provider)
RefreshDeveloperMessage(entries, p) ==
  IF Len(entries) > 0 /\ entries[1].kind = "message" /\ entries[1].role = "developer"
    THEN [entries EXCEPT ![1] = DevEntry(p)]
    ELSE <<DevEntry(p)>> \o entries

\* buildInitialHistory: the fetched batch is newest first; reversed, other
\* bots' messages dropped, the bot's own become assistant entries.

HistoryEntries(batch) ==
  LET kept == SelectSeq(Reverse(batch), LAMBDA m : m.author # "otherbot")
  IN [i \in 1..Len(kept) |->
        HistEntry(IF kept[i].author = "self" THEN "assistant" ELSE "user", kept[i].mid)]

\* A buildInitialHistory that keeps the fetched batch as it came: newest
\* first, other bots' messages included.
BuildInitialHistoryAsFetched(p, batch) ==
  <<DevEntry(p)>> \o
    [i \in 1..Len(batch) |->
       HistEntry(IF batch[i].author = "self" THEN "assistant" ELSE "user", batch[i].mid)]

\* An initial history without the developer entry.
BuildInitialHistoryBare(p, batch) == HistoryEntries(batch)

BuildInitialHistory(p, batch) == <<DevEntry(p)>> \o HistoryEntries(batch)

\* ---------------------------------------------- AgentOrchestrator: helpers

\* `Provider "${providerId}" is not registered.`
NotRegisteredText(pid) == <<"Provider", pid, "is not registered.">>

\* `Switched to provider "${displayName}" for this channel ...`
SwitchedText(pid) == <<"Switched to provider", pid>>

\* `The tool "${call.name}" is not supported by this bot.`
UnsupportedText(n) == <<"The tool", n, "is not supported by this bot.">>

\* `The tool "${call.name}" failed to run.`
ToolFailedText(n) == <<"The tool", n, "failed to run.">>

\* A switchProviderForChannel that rewrites the stored state whatever the
\* registry answered.
SwitchProviderForChannelUnchecked(m, provs, pn, tm, c, pid) ==
  LET result == SetProviderForChannel(provs, pn, c, pid)
      state == GetRet(m, tm, c)
      m1 == GetMap(m, tm, c)
  IN [ result |-> result,
       pins |-> result.pins,
       store |->
         IF state.some
           THEN SetMap(m1, c, State(pid, RefreshDeveloperMessage(state.val.entries, pid),
                                    tm, NoThoughts))
           ELSE SwitchProviderMap(m1, tm, c, pid) ]

\* A switchProviderForChannel that repins the channel and leaves the stored
\* state to the end of the turn.
SwitchProviderForChannelPinOnly(m, provs, pn, tm, c, pid) ==
  LET result == SetProviderForChannel(provs, pn, c, pid)
  IN [result |-> result, pins |-> result.pins, store |-> m]

\* switchProviderForChannel(channelId, providerId, botName): the registry's
\* result, and the store and channelProviders afterwards
SwitchProviderForChannel(m, provs, pn, tm, c, pid) ==
  LET result == SetProviderForChannel(provs, pn, c, pid)
      state == GetRet(m, tm, c)
      m1 == GetMap(m, tm, c)
  IN [ result |-> result,
       pins |-> result.pins,
       store |->
         IF ~result.provider.some THEN m
         ELSE IF state.some
           THEN SetMap(m1, c, State(pid, RefreshDeveloperMessage(state.val.entries, pid),
                                    tm, NoThoughts))
           ELSE SwitchProviderMap(m1, tm, c, pid) ]

\* Handlers that write their text into the channel's stored entries
\* themselves.
InvokeHandlerRecording(m, provs, pn, tm, c, call) ==
  LET text == IF call.name = "switch_provider" THEN SwitchedText(call.arg)
              ELSE <<"output of", call.name>>
  IN [ store |-> IF c \in DOMAIN m
                   THEN [m EXCEPT ![c].entries =
                           Append(@, ToolResultEntry(call.id, call.name, text))]
                   ELSE m,
       pins |-> pn, text |-> text, switched |-> FALSE ]

\* What a catalog handler does before its first await: switch_provider runs
\* to its end (its text is ready), the other two start their external calls.
InvokeHandler(m, provs, pn, tm, c, call) ==
  IF call.name = "switch_provider"
    THEN IF call.arg = ""
      THEN [store |-> m, pins |-> pn, text |-> <<"Please provide a provider_id to switch to.">>,
            switched |-> FALSE]
      ELSE LET sw == SwitchProviderForChannel(m, provs, pn, tm, c, call.arg)
           IN [ store |-> sw.store, pins |-> sw.pins,
                text |-> IF sw.result.error.some THEN NotRegisteredText(call.arg)
                         ELSE SwitchedText(call.arg),
                switched |-> sw.result.provider.some ]
    ELSE [store |-> m, pins |-> pn, text |-> <<"output of", call.name>>, switched |-> FALSE]

\* Can the handler's promise reject?  summarizeMessages catches everything
\* and switch_provider awaits nothing; generateImage awaits sendTyping
\* outside its try block.
MayThrow(n) == n = "generate_image"

\* A loop without the toolDefinition lookup: every call goes to a handler.
SkipUnsupportedUnguarded(calls, i, results) == [idx |-> i, results |-> results]

RECURSIVE SkipUnsupported(_, _, _)
\* The loop's synchronous `continue` branch: from call i on, every call with
\* no toolDefinition gets its declining tool_result; stops at the first call
\* that has a handler.
SkipUnsupported(calls, i, results) ==
  IF i > Len(calls) \/ calls[i].name \in ToolCatalog
    THEN [idx |-> i, results |-> results]
    ELSE SkipUnsupported(calls, i + 1,
           Append(results, ToolResultEntry(calls[i].id, calls[i].name,
                                           UnsupportedText(calls[i].name))))

\* A sendReply that sends the first chat call's text whenever it has a text.
SendReplyFirstText(hasText, which) == IF hasText THEN "text1" ELSE "filler"

\* A sendReply that sends nothing when it has no text.
SendReplySilent(hasText, which) == IF hasText THEN which ELSE "-"

\* sendReply(content, message): what is sent, the content (`which` names the
\* chat call it is the text of) or, the content being absent or empty, the
\* fixed filler
SendReply(hasText, which) == IF hasText THEN which ELSE "filler"

\* The typing loop of a handleMention invocation (startTypingLoop): its
\* `active` flag, whether a sendTyping call is awaited, whether the timer is
\* set, and for the record how many sendTyping calls it has started and
\* whether one has failed.
NoTyping ==
  [active |-> FALSE, inflight |-> FALSE, armed |-> FALSE, started |-> 0, failed |-> FALSE]

\* startTypingLoop(message), lines 352-369: active, and the first tick()
\* has called sendTyping.
StartTypingLoop ==
  [active |-> TRUE, inflight |-> TRUE, armed |-> FALSE, started |-> 1, failed |-> FALSE]

\* stopTyping(), lines 371-374
StopTyping(ty) == [ty EXCEPT !.active = FALSE, !.armed = FALSE]

\* The request of the first chat call (lines 69-74)
FirstCall(p, th) == [to |-> p, toolChoice |-> "auto", thoughts |-> th]

\* A follow-up request that leaves the tool choice to the backend.
FollowUpCallAuto(p, th) == [to |-> p, toolChoice |-> "auto", thoughts |-> th]

\* The request of the follow-up chat call (lines 139-144)
FollowUpCall(p, th) == [to |-> p, toolChoice |-> "none", thoughts |-> th]

\* The tool loop from call i on (toolResults being `results`), up to its
\* next await: either a handler has been invoked and is awaited, or the loop
\* is over, the provider re-resolved and the follow-up chat call issued.
ToolLoop(tr, i, results, m, provs, pn, d, tm) ==
  LET sk == SkipUnsupported(tr.calls, i, results)
  IN IF sk.idx <= Len(tr.calls)
       THEN LET call == tr.calls[sk.idx]
                inv == InvokeHandler(m, provs, pn, tm, tr.chan, call)
            IN [ store |-> inv.store, pins |-> inv.pins,
                 tr |-> [tr EXCEPT !.pc = "tool", !.idx = sk.idx,
                                   !.toolResults = sk.results,
                                   !.pending = inv.text,
                                   !.switchPath = @ \/ inv.switched,
                                   !.execs = Append(@, [id |-> call.id, name |-> call.name,
                                                        providerId |-> tr.activeProvider,
                                                        resolved |-> GetProviderForChannel(provs, pn, d, tr.chan)])] ]
       ELSE LET working == tr.working \o sk.results
                refreshed == GetProviderForChannel(provs, pn, d, tr.chan)
                active == IF refreshed.some THEN refreshed.val ELSE tr.activeProvider
                changed == refreshed.some /\ refreshed.val # tr.activeProvider
                thoughts == Coalesce(tr.firstThoughts, tr.stateThoughts)
            IN [ store |-> m, pins |-> pn,
                 tr |-> [tr EXCEPT !.pc = "followup", !.idx = sk.idx,
                                   !.toolResults = sk.results,
                                   !.activeProvider = active,
                                   !.working = IF changed
                                                 THEN RefreshDeveloperMessage(working, active)
                                                 ELSE working,
                                   !.chatCalls = Append(@, FollowUpCall(active, thoughts))] ]

\* A working copy that starts with the user entry.
BeginChatUserFirst(tr, t, state) ==
  [tr EXCEPT !.pc = "first",
             !.activeProvider = tr.provider,
             !.stateThoughts = state.thoughts,
             !.working = <<UserEntry(t)>> \o state.entries,
             !.chatCalls = <<FirstCall(tr.provider, state.thoughts)>>]

\* Lines 63-74: the working copy and the first chat call, issued.
BeginChat(tr, t, state) ==
  [tr EXCEPT !.pc = "first",
             !.activeProvider = tr.provider,
             !.stateThoughts = state.thoughts,
             !.working = Append(state.entries, UserEntry(t)),
             !.chatCalls = <<FirstCall(tr.provider, state.thoughts)>>]

\* ------------------------------------------------------------------ state

VARIABLES
  store,      \* ConversationStore.store
  now,        \* Date.now()
  ticks,      \* clock advances so far
  lastOp,     \* store-only specification: the store call of the last step
  providers,  \* providerRegistry: providers (the registered ids)
  pins,       \* providerRegistry: channelProviders
  creds,      \* process.env: the backends whose credential is set
  dflt,       \* providerRegistry: defaultProviderId
  regLog,     \* registration passes run and adapters constructed so far
  turn        \* the handleMention invocations: locals and position of each

vars == <<store, now, ticks, lastOp, providers, pins, creds, dflt, regLog, turn>>

registry == <<providers, pins, creds, dflt, regLog>>

\* ------------------------------------------------- store-only specification

\* Values a caller may hand to set / update.
SampleEntries ==
  { <<DevEntry("openai")>>,
    <<DevEntry("grok"), UserEntry(1), AssistantEntry(1, 1)>> }

SampleThoughts == {NoThoughts, Thoughts("grok", 1, 1)}

\* The store call a step made: its name, channel, argument and return value,
\* and whether the step before made the same call.
Op(o, c, a, r) ==
  [ op |-> o, ch |-> c, arg |-> a, ret |-> r,
    again |-> lastOp.op = o /\ lastOp.ch = c /\ lastOp.arg = a ]

NoOp == [op |-> "init", ch |-> "-", arg |-> None, ret |-> None, again |-> FALSE]

StoreInit ==
  /\ store = << >>
  /\ now = 0
  /\ ticks = 0
  /\ lastOp = NoOp
  /\ providers = {}
  /\ pins = << >>
  /\ creds = ProviderIds
  /\ dflt = "openai"
  /\ regLog = NoPasses
  /\ turn = << >>

StoreTick ==
  /\ ticks < MaxStoreTicks
  /\ \E d \in TickDeltas : now' = now + d
  /\ ticks' = ticks + 1
  /\ store' = store
  /\ lastOp' = [NoOp EXCEPT !.op = "tick"]
  /\ UNCHANGED <<registry, turn>>

StoreGet(c) ==
  /\ store' = GetMap(store, now, c)
  /\ lastOp' = Op("get", c, None, GetRet(store, now, c))
  /\ UNCHANGED <<now, ticks, registry, turn>>

StoreSet(c) ==
  /\ \E p \in ProviderIds, e \in SampleEntries, th \in SampleThoughts :
       /\ store' = SetMap(store, c, State(p, e, now, th))
       /\ lastOp' = Op("set", c, Some(State(p, e, now, th)), None)
  /\ UNCHANGED <<now, ticks, registry, turn>>

StoreUpdate(c) ==
  /\ \E e \in SampleEntries :
       /\ store' = UpdateMap(store, now, c, e)
       /\ lastOp' = Op("update", c, Some(e), None)
  /\ UNCHANGED <<now, ticks, registry, turn>>

StoreTouch(c) ==
  /\ store' = TouchMap(store, now, c)
  /\ lastOp' = Op("touch", c, None, None)
  /\ UNCHANGED <<now, ticks, registry, turn>>

StoreSwitchProvider(c) ==
  /\ \E p \in ProviderIds :
       /\ store' = SwitchProviderMap(store, now, c, p)
       /\ lastOp' = Op("switchProvider", c, Some(p), None)
  /\ UNCHANGED <<now, ticks, registry, turn>>

StorePruneExpired ==
  /\ store' = PruneMap(store, now)
  /\ lastOp' = Op("pruneExpired", "-", None, None)
  /\ UNCHANGED <<now, ticks, registry, turn>>

StoreNext ==
  \/ StoreTick
  \/ \E c \in Channels : StoreGet(c)
  \/ \E c \in Channels : StoreSet(c)
  \/ \E c \in Channels : StoreUpdate(c)
  \/ \E c \in Channels : StoreTouch(c)
  \/ \E c \in Channels : StoreSwitchProvider(c)
  \/ StorePruneExpired

SpecStore == StoreInit /\ [][StoreNext]_vars

\* A map's states with their timestamps left out.
SansTimestamp(m) ==
  [c \in DOMAIN m |-> [providerId |-> m[c].providerId, entries |-> m[c].entries,
                       thoughts |-> m[c].thoughts]]

\* How long the stored state of c has been idle.
IdleFor(m, tm, c) == tm - m[c].timestamp

\* ---------------------------------------------------------------- C6
\* C6 as stated: a get at an idle delay d >= the timeout returns absent and
\* evicts the state, and a second get right after returns absent too; at
\* d < the timeout it returns the live state.
C6_AsStated ==
  [][\A c \in Channels :
       (lastOp'.op = "get" /\ lastOp'.ch = c /\ c \in DOMAIN store) =>
         IF IdleFor(store, now, c) >= CONVERSATION_TIMEOUT
           THEN /\ lastOp'.ret = None
                /\ c \notin DOMAIN store'
                /\ GetRet(store', now', c) = None
           ELSE /\ lastOp'.ret = Some(store[c])
                /\ store' = store]_vars

\* C6 amended: the same with the boundary where the code has it: absent and
\* evicted (with no resurrection) at d > the timeout, live at d <= it.
C6_GetExpiry ==
  [][\A c \in Channels :
       (lastOp'.op = "get" /\ lastOp'.ch = c /\ c \in DOMAIN store) =>
         IF IdleFor(store, now, c) > CONVERSATION_TIMEOUT
           THEN /\ lastOp'.ret = None
                /\ c \notin DOMAIN store'
                /\ GetRet(store', now', c) = None
           ELSE /\ lastOp'.ret = Some(store[c])
                /\ store' = store]_vars

\* Two gets in a row have returned absent for a channel whose state an
\* earlier step had stored, while another channel's state is still live.
C6_Witness ==
  /\ lastOp.op = "get" /\ lastOp.again /\ lastOp.ret = None
  /\ lastOp.ch \notin DOMAIN store
  /\ now > CONVERSATION_TIMEOUT
  /\ \E c \in DOMAIN store : IdleFor(store, now, c) = CONVERSATION_TIMEOUT

\* ---------------------------------------------------------------- C7
\* C7 as stated: set, update and touch on a channel with no live state leave
\* get returning absent.
C7_AsStated ==
  [][\A c \in Channels :
       ( /\ lastOp'.op \in {"set", "update", "touch"}
         /\ lastOp'.ch = c
         /\ GetRet(store, now, c) = None )
       => GetRet(store', now', c) = None]_vars

\* C7 amended: update and touch on a channel with no live state leave get
\* returning absent and every other channel's state as it was; set stores
\* the state it is given, and get then returns that state.
C7_NoOpOnAbsent ==
  [][\A c \in Channels :
       (lastOp'.ch = c /\ GetRet(store, now, c) = None) =>
         /\ lastOp'.op \in {"update", "touch"} =>
              /\ GetRet(store', now', c) = None
              /\ \A x \in Channels \ {c} :
                   /\ x \in DOMAIN store' <=> x \in DOMAIN store
                   /\ x \in DOMAIN store => store'[x] = store[x]
         /\ lastOp'.op = "set" => GetRet(store', now', c) = lastOp'.arg]_vars

\* An update has just run on a channel that holds nothing, while the other
\* channel holds a state.
C7_Witness ==
  /\ lastOp.op = "update"
  /\ lastOp.ch \notin DOMAIN store
  /\ store # << >>

\* ---------------------------------------------------------------- C8
\* C8: on a live state update changes the entry list and the timestamp only,
\* touch the timestamp only; whatever else the store holds (the continuation
\* data, the provider id, the other channels) is as before.  The third part,
\* switchProvider, is C8's too.
C8_FrameOnLive ==
  [][\A c \in Channels :
       (lastOp'.ch = c /\ GetRet(store, now, c) # None) =>
         /\ lastOp'.op = "update" =>
              store' = [store EXCEPT ![c] = [@ EXCEPT !.entries = lastOp'.arg.val,
                                                     !.timestamp = now]]
         /\ lastOp'.op = "touch" =>
              store' = [store EXCEPT ![c] = [@ EXCEPT !.timestamp = now]]
         /\ lastOp'.op = "switchProvider" =>
              store' = [store EXCEPT ![c] = [@ EXCEPT !.providerId = lastOp'.arg.val,
                                                     !.timestamp = now]]]_vars

\* switchProvider has just moved a live state that carries continuation data
\* to another provider, at a later time than the state was written, with
\* the other channel holding a state too.
C8_Witness ==
  /\ lastOp.op = "switchProvider"
  /\ lastOp.ch \in DOMAIN store
  /\ store[lastOp.ch].providerId = "openai"
  /\ store[lastOp.ch].thoughts = Thoughts("grok", 1, 1)
  /\ store[lastOp.ch].timestamp > 0
  /\ DOMAIN store = Channels

\* ---------------------------------------------------------------- C9
\* C9: a second switchProvider(channel, id) right after the first leaves the
\* store, timestamps aside, as the first call left it.
C9_SwitchIdempotent ==
  [][( /\ lastOp.op = "switchProvider"
       /\ lastOp'.op = "switchProvider"
       /\ lastOp'.ch = lastOp.ch
       /\ lastOp'.arg = lastOp.arg )
     => SansTimestamp(store') = SansTimestamp(store)]_vars

\* The same switchProvider call has run twice in a row on a live state that
\* was pinned to the other provider before.
C9_Witness ==
  /\ lastOp.op = "switchProvider" /\ lastOp.again
  /\ lastOp.ch \in DOMAIN store
  /\ store[lastOp.ch].providerId = "openai"
  /\ store[lastOp.ch].entries[1] = DevEntry("grok")


\* ------------------------------------------------ orchestrator specification

\* handleMention invocations of a run, numbered in the order they start.
MaxTurns == 2

\* Idle gaps (longer than the timeout) the clock may jump over.
MaxElapses == 1

Turns == 1..MaxTurns

FirstChannel == "c1"

\* What channel.messages.fetch({limit: 10, before}) returns, newest first: a
\* reply of the bot, a message of another bot, a message of a user.
Msg(a, i) == [author |-> a, mid |-> i]

FetchBatches == { <<Msg("self", 3), Msg("otherbot", 2), Msg("user", 1)>> }

\* The function calls one backend response may hold (name, provider_id).
Call(n, a) == [name |-> n, arg |-> a]

\* The backend responses the model draws from: their text (present or not),
\* their function calls, and whether they carry continuation data when the
\* adapter returns any.
Shape(x, plan, th) == [text |-> x, plan |-> plan, th |-> th]

FirstShapes ==
  { Shape(TRUE, <<>>, FALSE),
    Shape(FALSE, <<>>, TRUE),
    Shape(TRUE, <<Call("unknown_tool", "-")>>, FALSE),
    Shape(TRUE, <<Call("generate_image", "-")>>, FALSE),
    Shape(FALSE, <<Call("switch_provider", "nope")>>, TRUE),
    Shape(FALSE, <<Call("generate_image", "-"), Call("summarize_messages", "-")>>, FALSE),
    Shape(FALSE, <<Call("switch_provider", "grok"), Call("switch_provider", "openai")>>, FALSE) }
  \cup { Shape(FALSE, <<Call("switch_provider", p)>>, TRUE) : p \in ProviderIds }
  \cup { Shape(FALSE, <<Call("switch_provider", p), Call("summarize_messages", "-")>>, TRUE) :
           p \in ProviderIds }

\* tool_choice none is a request to the backend; parseResponse takes whatever
\* function calls come back.
FollowUpShapes ==
  { Shape(TRUE, <<>>, FALSE),
    Shape(FALSE, <<>>, TRUE),
    Shape(TRUE, <<Call("generate_image", "-")>>, FALSE) }

\* The calls of a plan as extractToolCalls returns them: call k of turn t
WithIds(plan, t, k) ==
  [i \in 1..Len(plan) |-> [id |-> <<t, k, i>>, name |-> plan[i].name, arg |-> plan[i].arg]]

\* ProviderChatResponse of call k of turn t, answered by adapter p
Response(sh, p, t, k) ==
  [ text |-> sh.text, calls |-> WithIds(sh.plan, t, k),
    thoughts |-> IF sh.th /\ ReturnsThoughts(p) THEN Thoughts(p, t, k) ELSE NoThoughts ]

FirstResponses(p, t) == { Response(sh, p, t, 1) : sh \in FirstShapes }

FollowUpResponses(p, t) == { Response(sh, p, t, 2) : sh \in FollowUpShapes }

IdleTurn ==
  [ pc |-> "idle", chan |-> "-", provider |-> "-", activeProvider |-> "-",
    stateThoughts |-> NoThoughts, working |-> <<>>, calls |-> <<>>, idx |-> 0,
    toolResults |-> <<>>, pending |-> <<>>, firstThoughts |-> NoThoughts,
    finalThoughts |-> NoThoughts, replyWith |-> "-", replies |-> <<>>,
    chatCalls |-> <<>>, execs |-> <<>>, threw |-> "-",
    pre |-> None, overlap |-> FALSE, switchPath |-> FALSE, typing |-> NoTyping ]

\* A handleMention invocation past its last use of its locals: what is kept
\* is where it ended, what it threw, what it replied, and the bookkeeping.
Ended(tr, pc, threw, replies) ==
  [IdleTurn EXCEPT !.pc = pc, !.chan = tr.chan, !.threw = threw, !.replies = replies,
                   !.pre = tr.pre, !.overlap = tr.overlap, !.switchPath = tr.switchPath,
                   !.typing = tr.typing]

InFlight(t) == turn[t].pc \in {"fetch", "first", "tool", "followup", "reply", "apology"}

Init ==
  /\ store = << >>
  /\ now = 0
  /\ ticks = 0
  /\ lastOp = NoOp
  /\ providers = {}
  /\ pins = << >>
  /\ creds \in SUBSET ProviderIds
  /\ dflt = "openai"
  /\ regLog = NoPasses
  /\ turn = [t \in Turns |-> IdleTurn]

\* The clock jumps over an idle gap.
Elapse ==
  /\ ticks < MaxElapses
  /\ now' = now + CONVERSATION_TIMEOUT + 1
  /\ ticks' = ticks + 1
  /\ UNCHANGED <<store, lastOp, registry, turn>>

\* What the store holds for a channel, as a reader sees it, timestamp aside.
View(m, tm, c) ==
  LET got == GetRet(m, tm, c)
  IN IF got.some
       THEN Some([providerId |-> got.val.providerId, entries |-> got.val.entries,
                  thoughts |-> got.val.thoughts])
       ELSE None

\* handleMention, lines 18-74: up to the first await.
\* Invocations start in the order of their numbers; the channels being
\* interchangeable, the first one is on FirstChannel.
Mention(t, c) ==
  /\ turn[t].pc = "idle"
  /\ \A u \in Turns : u < t => turn[u].pc # "idle"
  /\ t = 1 => c = FirstChannel
  /\ LET provs == EnsureRegistered(providers, creds)
         provider == GetProviderForChannel(provs, pins, dflt, c)
         others == {u \in Turns : InFlight(u) /\ turn[u].chan = c}
         marked == [u \in Turns |-> IF u \in others THEN [turn[u] EXCEPT !.overlap = TRUE]
                                    ELSE turn[u]]
         tr0 == [IdleTurn EXCEPT !.chan = c, !.pre = View(store, now, c),
                                 !.overlap = others # {}, !.typing = StartTypingLoop]
     IN /\ providers' = provs
        /\ regLog' = EnsureLog(providers, creds, regLog)
        /\ IF ~provider.some
             THEN \* 'No AI provider is configured for this bot.'
                  /\ turn' = [marked EXCEPT ![t] =
                                [tr0 EXCEPT !.pc = "noprovider", !.replies = <<"noprovider">>,
                                            !.typing = StopTyping(@)]]
                  /\ store' = store
             ELSE LET tr1 == [tr0 EXCEPT !.provider = provider.val]
                      m1 == PruneMap(store, now)
                      state == GetRet(m1, now, c)
                  IN IF ~state.some
                       THEN \* await buildInitialHistory
                            /\ store' = m1
                            /\ turn' = [marked EXCEPT ![t] = [tr1 EXCEPT !.pc = "fetch"]]
                       ELSE IF state.val.providerId # provider.val
                         THEN LET m2 == SwitchProviderMap(m1, now, c, provider.val)
                                  s2 == GetRet(m2, now, c)
                                  m3 == IF s2.some
                                          THEN SetMap(m2, c,
                                                 State(provider.val,
                                                       RefreshDeveloperMessage(s2.val.entries,
                                                                               provider.val),
                                                       now, NoThoughts))
                                          ELSE m2
                                  s3 == GetRet(m3, now, c)
                              IN /\ store' = m3
                                 /\ turn' = [marked EXCEPT ![t] =
                                      IF s3.some
                                        THEN BeginChat([tr1 EXCEPT !.switchPath = TRUE], t, s3.val)
                                        ELSE \* 'Failed to initialize the conversation state.'
                                             [tr1 EXCEPT !.pc = "noprovider",
                                                         !.replies = <<"initfailed">>,
                                                         !.typing = StopTyping(@)]]
                         ELSE /\ store' = m1
                              /\ turn' = [marked EXCEPT ![t] = BeginChat(tr1, t, state.val)]
  /\ UNCHANGED <<now, ticks, lastOp, pins, creds, dflt>>

\* A fetch that resolves only while no chat call of another invocation is
\* outstanding.
FetchReturnsSerialised(t) ==
  /\ turn[t].pc = "fetch"
  /\ \A u \in Turns \ {t} : turn[u].pc \notin {"first", "followup", "hung"}
  /\ \E batch \in FetchBatches :
       LET state == State(turn[t].provider, BuildInitialHistory(turn[t].provider, batch),
                          now, NoThoughts)
       IN /\ store' = SetMap(store, turn[t].chan, state)
          /\ turn' = [turn EXCEPT ![t] = BeginChat(@, t, state)]
  /\ UNCHANGED <<now, ticks, lastOp, registry>>

\* buildInitialHistory's fetch resolves (lines 33-39, 63-74) or rejects.
FetchReturns(t) ==
  /\ turn[t].pc = "fetch"
  /\ \E batch \in FetchBatches :
       LET state == State(turn[t].provider, BuildInitialHistory(turn[t].provider, batch),
                          now, NoThoughts)
       IN /\ store' = SetMap(store, turn[t].chan, state)
          /\ turn' = [turn EXCEPT ![t] = BeginChat(@, t, state)]
  /\ UNCHANGED <<now, ticks, lastOp, registry>>

\* The rejection leaves handleMention: the await is outside the try block.
FetchThrows(t) ==
  /\ turn[t].pc = "fetch"
  /\ turn' = [turn EXCEPT ![t] = Ended(@, "escaped", "fetch", <<>>)]
  /\ UNCHANGED <<store, now, ticks, lastOp, registry>>

\* The first chat call resolves with response r (lines 76-127, or 158).
FirstResolves(t, r) ==
  /\ turn[t].pc = "first"
  /\ LET hostHandledCalls == HostHandledCalls(turn[t].activeProvider, r.calls)
         tr1 == [turn[t] EXCEPT !.working = @ \o OutputEntries(r, t, 1),
                                !.firstThoughts = r.thoughts,
                                !.calls = hostHandledCalls]
     IN IF Len(hostHandledCalls) > 0
          THEN LET go == ToolLoop(tr1, 1, <<>>, store, EnsureRegistered(providers, creds),
                                  pins, dflt, now)
               IN /\ turn' = [turn EXCEPT ![t] = go.tr]
                  /\ store' = go.store
                  /\ pins' = go.pins
          ELSE /\ turn' = [turn EXCEPT ![t] =
                     [tr1 EXCEPT !.pc = "reply",
                                 !.replyWith = SendReply(r.text, "text1"),
                                 !.finalThoughts = Coalesce(r.thoughts, turn[t].stateThoughts)]]
               /\ UNCHANGED <<store, pins>>
  /\ UNCHANGED <<now, ticks, providers, creds, dflt, regLog>>

FirstReturns(t) ==
  /\ turn[t].pc = "first"
  /\ \E r \in FirstResponses(turn[t].activeProvider, t) : FirstResolves(t, r)
  /\ lastOp' = lastOp

\* A chat call rejects: the catch block sends the apology.
ChatThrows(t) ==
  /\ turn[t].pc \in {"first", "followup"}
  /\ turn' = [turn EXCEPT ![t] = Ended(@, "apology", "chat", <<>>)]
  /\ UNCHANGED <<store, now, ticks, lastOp, registry>>

\* A tool loop without the per-call catch: a handler's rejection reaches the
\* catch block of handleMention.
ToolSettlesUncaught(t) ==
  /\ turn[t].pc = "tool"
  /\ LET call == turn[t].calls[turn[t].idx]
     IN \E ok \in {TRUE} \cup {FALSE : x \in {n \in {call.name} : MayThrow(n)}} :
          LET result == ToolResultEntry(call.id, call.name, turn[t].pending)
              go == ToolLoop(turn[t], turn[t].idx + 1, Append(turn[t].toolResults, result),
                             store, EnsureRegistered(providers, creds), pins, dflt, now)
          IN IF ok
               THEN /\ turn' = [turn EXCEPT ![t] = go.tr]
                    /\ store' = go.store
                    /\ pins' = go.pins
               ELSE /\ turn' = [turn EXCEPT ![t] = Ended(@, "apology", "tool", <<>>)]
                    /\ UNCHANGED <<store, pins>>
  /\ UNCHANGED <<now, ticks, lastOp, providers, creds, dflt, regLog>>

\* The awaited handler settles (lines 110-139): its tool_result is pushed
\* and the loop goes on to its next await.
ToolSettles(t) ==
  /\ turn[t].pc = "tool"
  /\ LET call == turn[t].calls[turn[t].idx]
     IN \E ok \in {TRUE} \cup {FALSE : x \in {n \in {call.name} : MayThrow(n)}} :
          LET result == ToolResultEntry(call.id, call.name,
                          IF ok THEN turn[t].pending ELSE ToolFailedText(call.name))
              go == ToolLoop(turn[t], turn[t].idx + 1, Append(turn[t].toolResults, result),
                             store, EnsureRegistered(providers, creds), pins, dflt, now)
          IN /\ turn' = [turn EXCEPT ![t] = go.tr]
             /\ store' = go.store
             /\ pins' = go.pins
  /\ UNCHANGED <<now, ticks, lastOp, providers, creds, dflt, regLog>>

\* A follow-up whose continuation data alone is kept for the state.
FollowUpResolvesFinalOnly(t, r) ==
  /\ turn[t].pc = "followup"
  /\ turn' = [turn EXCEPT ![t] =
       [@ EXCEPT !.pc = "reply",
                 !.working = @ \o OutputEntries(r, t, 2),
                 !.replyWith = SendReply(r.text, "text2"),
                 !.finalThoughts = r.thoughts]]
  /\ UNCHANGED <<store, now, ticks, registry>>

\* The follow-up chat call resolves with response r (lines 146-154).
FollowUpResolves(t, r) ==
  /\ turn[t].pc = "followup"
  /\ turn' = [turn EXCEPT ![t] =
       [@ EXCEPT !.pc = "reply",
                 !.working = @ \o OutputEntries(r, t, 2),
                 !.replyWith = SendReply(r.text, "text2"),
                 !.finalThoughts =
                    Coalesce(r.thoughts, Coalesce(turn[t].firstThoughts,
                                                  turn[t].stateThoughts))]]
  /\ UNCHANGED <<store, now, ticks, registry>>

FollowUpReturns(t) ==
  /\ turn[t].pc = "followup"
  /\ \E r \in FollowUpResponses(turn[t].activeProvider, t) : FollowUpResolves(t, r)
  /\ lastOp' = lastOp

\* sendReply resolves: the state is written (lines 149-154, 160-165) and
\* handleMention returns.
ReplySent(t) ==
  /\ turn[t].pc = "reply"
  /\ store' = SetMap(store, turn[t].chan,
                     State(turn[t].activeProvider, turn[t].working, now,
                           turn[t].finalThoughts))
  /\ turn' = [turn EXCEPT ![t] =
                [Ended(@, "done", "-", <<turn[t].replyWith>>) EXCEPT !.typing = StopTyping(@)]]
  /\ UNCHANGED <<now, ticks, lastOp, registry>>

\* The apology is sent (line 168) and handleMention returns.
ApologySent(t) ==
  /\ turn[t].pc = "apology"
  /\ turn' = [turn EXCEPT ![t] =
                [Ended(@, "failed", @.threw, <<"apology">>) EXCEPT !.typing = StopTyping(@)]]
  /\ UNCHANGED <<store, now, ticks, lastOp, registry>>

Next ==
  \/ Elapse
  \/ \E t \in Turns, c \in Channels : Mention(t, c)
  \/ \E t \in Turns : FetchReturns(t)
  \/ \E t \in Turns : FetchThrows(t)
  \/ \E t \in Turns : FirstReturns(t)
  \/ \E t \in Turns : ChatThrows(t)
  \/ \E t \in Turns : ToolSettles(t)
  \/ \E t \in Turns : FollowUpReturns(t)
  \/ \E t \in Turns : ReplySent(t)
  \/ \E t \in Turns : ApologySent(t)

Spec == Init /\ [][Next]_vars

\* Each tool_call entry of a list is followed later in the list by a
\* tool_result entry with its id.
Paired(es) ==
  \A i \in 1..Len(es) :
    es[i].kind = "tool_call" =>
      \E j \in (i + 1)..Len(es) : es[j].kind = "tool_result" /\ es[j].id = es[i].id

\* ---------------------------------------------------------------- C1
\* C1 as stated: when a chat call of a turn has failed, and no provider
\* switch rewrote the state and no other turn ran on the channel meanwhile,
\* the store holds for the channel what it held when the turn began: nothing
\* if nothing, else the same provider id, entry list and continuation data
\* (or nothing any more, the idle timeout having passed).
C1_FailedTurnLeavesStore ==
  \A t \in Turns :
    ( /\ turn[t].pc = "apology"
      /\ turn[t].threw = "chat"
      /\ ~turn[t].switchPath
      /\ ~turn[t].overlap )
    => /\ turn[t].pre = None => View(store, now, turn[t].chan) = None
       /\ turn[t].pre # None => View(store, now, turn[t].chan) \in {turn[t].pre, None}

\* ---------------------------------------------------------------- C2
\* C2 as stated: a turn in which an exception was raised, the rejection of
\* the channel-history fetch included, ends inside handleMention with
\* exactly one reply, the generic apology; no exception leaves handleMention.
C2_EveryFailureApologised ==
  \A t \in Turns :
    /\ turn[t].pc # "escaped"
    /\ (turn[t].threw # "-" /\ ~InFlight(t)) => turn[t].replies = <<"apology">>

\* ---------------------------------------------------------------- C3
\* C3 as stated: in the entry list handed to a chat call (the list an
\* awaited first or follow-up call was given) and in every stored entry
\* list, each tool_call is followed later by a tool_result with its id,
\* whatever tool calls the backend returned.
C3_ToolCallsPaired ==
  /\ \A t \in Turns : turn[t].pc \in {"first", "followup"} => Paired(turn[t].working)
  /\ \A c \in DOMAIN store : Paired(store[c].entries)

\* ---------------------------------------------------------------- C4
\* C4: a turn issues at most two chat calls; the first has tool choice auto;
\* a second one has tool choice none and exists only when the first call
\* returned a host-handled tool call, each of which has its tool_result by
\* then; every handler that ran was for a call of the first response, and
\* ran once.
C4_AtMostTwoCalls ==
  \A t \in Turns :
    LET tr == turn[t]
        cc == tr.chatCalls
    IN /\ Len(cc) <= 2
       /\ Len(cc) >= 1 => cc[1].toolChoice = "auto"
       /\ Len(cc) = 2 =>
            /\ cc[2].toolChoice = "none"
            /\ Len(tr.calls) > 0
            /\ Len(tr.toolResults) = Len(tr.calls)
            /\ tr.pc \in {"followup", "reply"}
       /\ \A i \in 1..Len(tr.execs) :
            /\ tr.execs[i].id[2] = 1
            /\ \E k \in 1..Len(tr.calls) : tr.calls[k].id = tr.execs[i].id
            /\ \A j \in 1..Len(tr.execs) : tr.execs[j].id = tr.execs[i].id => j = i

\* A turn is replying after two chat calls and two handler runs, and its
\* follow-up response carried a tool call, which stays unexecuted.
C4_Witness ==
  \E t \in Turns :
    /\ turn[t].pc = "reply"
    /\ Len(turn[t].chatCalls) = 2
    /\ Len(turn[t].execs) = 2
    /\ \E i \in 1..Len(turn[t].working) :
         turn[t].working[i].kind = "tool_call" /\ turn[t].working[i].id = <<t, 2, 1>>

\* ---------------------------------------------------------------- C5
InList(e, es) == \E i \in 1..Len(es) : es[i] = e

\* C5: the write at the end of a turn replaces the channel's state whole:
\* after it the store holds the turn's provider id, working list and
\* continuation data, and nothing of what another turn stored meanwhile.
C5_LastWriteWins ==
  [][\A t \in Turns :
       (turn[t].pc = "reply" /\ turn'[t].pc = "done") =>
         /\ turn[t].chan \in DOMAIN store'
         /\ store'[turn[t].chan] =
              State(turn[t].activeProvider, turn[t].working, now, turn[t].finalThoughts)]_vars

\* The lost update: two turns overlapped on one channel and both replied,
\* the one that began later finished first, and the stored list has the
\* user entry of the first turn only.
C5_LostUpdate ==
  /\ turn[1].pc = "done" /\ turn[2].pc = "done"
  /\ turn[1].replies # <<>> /\ turn[2].replies # <<>>
  /\ turn[1].chan = turn[2].chan
  /\ turn[1].overlap /\ turn[2].overlap
  /\ turn[1].chan \in DOMAIN store
  /\ InList(UserEntry(1), store[turn[1].chan].entries)
  /\ ~InList(UserEntry(2), store[turn[1].chan].entries)

\* ---------------------------------------------------------------- C10
\* getProviderForChannel(c) as the next call would return it
Resolve(c) == GetProviderForChannel(EnsureRegistered(providers, creds), pins, dflt, c)

\* This step ran the switch_provider handler of a turn on channel c, asking
\* for the registered provider p.
SwitchRan(c, p) ==
  \E t \in Turns :
    /\ turn'[t].pc = "tool"
    /\ turn'[t].chan = c
    /\ Len(turn'[t].execs) = Len(turn[t].execs) + 1
    /\ turn'[t].calls[turn'[t].idx].name = "switch_provider"
    /\ turn'[t].calls[turn'[t].idx].arg = p
    /\ p \in EnsureRegistered(providers, creds)

\* C10: a pinned channel resolves to its pin and an unpinned one to the
\* default provider; a pin appears or changes only in a step in which
\* setProviderForChannel succeeded for that channel, to the id it was given,
\* and no step (the clock passing the idle timeout, a turn failing, a turn
\* on another channel) removes it.
C10_PinHolds ==
  [][\A c \in Channels :
       /\ c \in DOMAIN pins => c \in DOMAIN pins'
       /\ (c \in DOMAIN pins' /\ (c \notin DOMAIN pins \/ pins[c] # pins'[c]))
            => SwitchRan(c, pins'[c])
       /\ c \in DOMAIN pins' => Resolve(c)' = Some(pins'[c])
       /\ c \notin DOMAIN pins' =>
            Resolve(c)' = IF dflt' \in EnsureRegistered(providers', creds')
                            THEN Some(dflt') ELSE None]_vars

\* Channel c1 is pinned to the provider that is not the default and still
\* resolves to it although its conversation state has expired and a turn on
\* the other channel, which resolves to the default, has failed.
C10_Witness ==
  /\ "c1" \in DOMAIN pins /\ pins["c1"] = "grok" /\ "c2" \notin DOMAIN pins
  /\ Resolve("c1") = Some("grok")
  /\ Resolve("c2") = Some("openai")
  /\ "c1" \in DOMAIN store /\ Expired(store["c1"], now)
  /\ \E t \in Turns : turn[t].pc = "failed" /\ turn[t].chan = "c2"

\* ---------------------------------------------------------------- C13
\* The last n entries of a list
Tail_n(es, n) == SubSeq(es, Len(es) - n + 1, Len(es))

\* C13: the handlers of a response's host-handled calls run one at a time
\* in the order the calls were returned: a handler is started only when
\* every earlier host-handled call has its tool_result; the tool_results
\* are one per host-handled call, in that order, each with its call's id and
\* name; and when the follow-up chat call is issued they are the last
\* entries of the working list.
C13_SequentialInOrder ==
  \A t \in Turns :
    LET tr == turn[t]
    IN /\ \A i, j \in 1..Len(tr.calls) : i < j => tr.calls[i].id[3] < tr.calls[j].id[3]
       /\ \A i, j \in 1..Len(tr.execs) : i < j => tr.execs[i].id[3] < tr.execs[j].id[3]
       /\ Len(tr.toolResults) <= Len(tr.calls)
       /\ \A i \in 1..Len(tr.toolResults) :
            /\ tr.toolResults[i].kind = "tool_result"
            /\ tr.toolResults[i].id = tr.calls[i].id
            /\ tr.toolResults[i].name = tr.calls[i].name
       /\ tr.pc = "tool" =>
            /\ Len(tr.toolResults) = tr.idx - 1
            /\ tr.execs[Len(tr.execs)].id = tr.calls[tr.idx].id
            /\ \A i \in 1..(Len(tr.execs) - 1) :
                 \E k \in 1..Len(tr.toolResults) : tr.toolResults[k].id = tr.execs[i].id
       /\ tr.pc = "followup" =>
            /\ Len(tr.toolResults) = Len(tr.calls)
            /\ Len(tr.working) >= Len(tr.calls)
            /\ Tail_n(tr.working, Len(tr.calls)) = tr.toolResults

\* The follow-up call of a turn is awaited after two handlers ran, for the
\* first and the second call of the response.
C13_Witness ==
  \E t \in Turns :
    /\ turn[t].pc = "followup"
    /\ Len(turn[t].calls) = 2
    /\ Len(turn[t].execs) = 2
    /\ turn[t].execs[1].id = <<t, 1, 1>> /\ turn[t].execs[2].id = <<t, 1, 2>>
    /\ turn[t].toolResults[2].id = <<t, 1, 2>>

\* ---------------------------------------------------------------- C14
\* One of the turn's tool_results says its tool failed to run.
HasFailedTool(tr) ==
  \E i \in 1..Len(tr.toolResults) :
    tr.toolResults[i].content = <<"The tool", tr.toolResults[i].name, "failed to run.">>

\* C14: when an awaited handler settles, by returning or by throwing, the
\* turn stays in the tool loop: the call gets its tool_result (saying the
\* tool failed if it threw), and the next host-handled call is started or,
\* after the last one, the follow-up chat call is issued.  A turn with a
\* failed tool whose follow-up call returns replies with the follow-up's
\* text (or the filler), never the apology, and persists its working list,
\* the failure's tool_result included.
C14_ToolFailureContained ==
  [][\A t \in Turns :
       LET tr == turn[t]
           nx == turn'[t]
       IN /\ (tr.pc = "tool" /\ (nx.pc # "tool" \/ nx.idx # tr.idx)) =>
               /\ nx.pc \in {"tool", "followup"}
               /\ Len(nx.toolResults) >= tr.idx
               /\ nx.toolResults[tr.idx].id = tr.calls[tr.idx].id
               /\ IF tr.idx < Len(tr.calls)
                    THEN /\ nx.pc = "tool" /\ nx.idx > tr.idx
                         /\ Len(nx.execs) = Len(tr.execs) + 1
                    ELSE /\ nx.pc = "followup"
                         /\ Len(nx.chatCalls) = 2
                         /\ Len(nx.toolResults) = Len(tr.calls)
          /\ (HasFailedTool(tr) /\ tr.pc = "followup" /\ nx.pc = "reply") =>
               nx.replyWith \in {"text2", "filler"}
          /\ (HasFailedTool(tr) /\ tr.pc = "reply" /\ nx.pc # "reply") =>
               /\ nx.pc = "done"
               /\ nx.replies = <<tr.replyWith>>
               /\ tr.replyWith \in {"text2", "filler"}
               /\ tr.chan \in DOMAIN store'
               /\ store'[tr.chan].entries = tr.working
               /\ \E i \in 1..Len(tr.toolResults) : InList(tr.toolResults[i], tr.working)]_vars

\* A turn whose first handler threw and whose second handler then ran has
\* ended with the follow-up's text as its one reply, and the stored list
\* holds the tool_result saying the tool failed.
C14_Witness ==
  \E t \in Turns :
    /\ turn[t].pc = "done"
    /\ turn[t].replies = <<"text2">>
    /\ turn[t].chan \in DOMAIN store
    /\ InList(ToolResultEntry(<<t, 1, 1>>, "generate_image",
                              <<"The tool", "generate_image", "failed to run.">>),
              store[turn[t].chan].entries)
    /\ \E i \in 1..Len(store[turn[t].chan].entries) :
         /\ store[turn[t].chan].entries[i].kind = "tool_result"
         /\ store[turn[t].chan].entries[i].id = <<t, 1, 2>>

\* ---------------------------------------------------------------- C16
\* Call k of the turn is a switch_provider call for a provider id that is
\* not registered (no backend of that id has its credential).
UnregisteredSwitch(tr, k) ==
  /\ k \in 1..Len(tr.calls)
  /\ tr.calls[k].name = "switch_provider"
  /\ tr.calls[k].arg \notin creds \cup {""}

\* C16: the step that runs switch_provider with an unregistered id changes
\* neither the pins nor the store, and the handler's output, which becomes
\* the content of the call's tool_result, is the registry's error string.
C16_UnregisteredSwitchRefused ==
  [][\A t \in Turns :
       LET tr == turn[t]
           nx == turn'[t]
       IN /\ ( /\ nx.pc = "tool"
               /\ Len(nx.execs) = Len(tr.execs) + 1
               /\ UnregisteredSwitch(nx, nx.idx) ) =>
               /\ pins' = pins
               /\ store' = store
               /\ nx.pending = <<"Provider", nx.calls[nx.idx].arg, "is not registered.">>
          /\ ( /\ tr.pc = "tool"
               /\ UnregisteredSwitch(tr, tr.idx)
               /\ (nx.pc # "tool" \/ nx.idx # tr.idx) ) =>
               /\ Len(nx.toolResults) >= tr.idx
               /\ nx.toolResults[tr.idx] =
                    ToolResultEntry(tr.calls[tr.idx].id, "switch_provider",
                       <<"Provider", tr.calls[tr.idx].arg, "is not registered.">>)]_vars

\* On a channel that an earlier turn pinned to grok, a turn has run
\* switch_provider for an unknown id: its tool_result carries the registry's
\* error, and the pin and the stored provider id are still grok.
C16_Witness ==
  \E t \in Turns :
    /\ turn[t].pc = "followup"
    /\ turn[t].toolResults = <<ToolResultEntry(<<t, 1, 1>>, "switch_provider",
                                  <<"Provider", "nope", "is not registered.">>)>>
    /\ turn[t].chan \in DOMAIN pins /\ pins[turn[t].chan] = "grok"
    /\ turn[t].chan \in DOMAIN store /\ store[turn[t].chan].providerId = "grok"

\* ---------------------------------------------------------------- C17
\* Call k of the turn was a switch_provider call that succeeded: its
\* tool_result is the handler's confirmation.
SwitchSucceeded(tr, k) ==
  /\ k \in 1..Len(tr.toolResults)
  /\ tr.calls[k].name = "switch_provider"
  /\ tr.toolResults[k].content = SwitchedText(tr.calls[k].arg)

\* Call k is the turn's last switch_provider call that succeeded.
LastSwitch(tr, k) ==
  /\ SwitchSucceeded(tr, k)
  /\ \A j \in (k + 1)..Len(tr.toolResults) : ~SwitchSucceeded(tr, j)

\* C17 as stated, for a turn that no other turn on its channel overlaps:
\* whenever a switch_provider call of the turn succeeded with a target other
\* than the provider that answered the first call, the follow-up call goes
\* to that target, with the developer entry rewritten for it.
C17_AsStated ==
  \A t \in Turns :
    (turn[t].pc = "followup" /\ ~turn[t].overlap) =>
      \A k \in 1..Len(turn[t].calls) :
        (SwitchSucceeded(turn[t], k) /\ turn[t].calls[k].arg # turn[t].provider) =>
          /\ turn[t].chatCalls[2].to = turn[t].calls[k].arg
          /\ turn[t].working[1] = DevEntry(turn[t].calls[k].arg)

\* C17 amended: in a turn that no other turn on its channel overlaps, the
\* follow-up call goes to the target P of the last switch_provider call
\* that succeeded, with the leading developer entry written for P, and the
\* state the turn persists has provider id P and that list.
C17_FollowUpToLastSwitch ==
  [][\A t \in Turns :
       LET tr == turn[t]
           nx == turn'[t]
       IN /\ (nx.pc \in {"followup", "reply"} /\ ~nx.overlap) =>
               \A k \in 1..Len(nx.calls) :
                 LastSwitch(nx, k) =>
                   /\ Len(nx.chatCalls) = 2
                   /\ nx.chatCalls[2].to = nx.calls[k].arg
                   /\ nx.chatCalls[2].toolChoice = "none"
                   /\ nx.activeProvider = nx.calls[k].arg
                   /\ nx.working[1] = DevEntry(nx.calls[k].arg)
          /\ (tr.pc = "reply" /\ nx.pc = "done") =>
               /\ tr.chan \in DOMAIN store'
               /\ store'[tr.chan].providerId = tr.activeProvider
               /\ store'[tr.chan].entries = tr.working]_vars

\* A turn that began with openai and that no turn overlapped has ended
\* after a successful switch to grok: the stored state has provider id grok,
\* the developer entry of grok, the switch's tool_result and the follow-up's
\* text.
C17_Witness ==
  \E t \in Turns :
    /\ turn[t].pc = "done" /\ ~turn[t].overlap
    /\ turn[t].chan \in DOMAIN store
    /\ turn[t].pre = None
    /\ store[turn[t].chan].providerId = "grok"
    /\ store[turn[t].chan].entries[1] = DevEntry("grok")
    /\ InList(ToolResultEntry(<<t, 1, 1>>, "switch_provider", SwitchedText("grok")),
              store[turn[t].chan].entries)
    /\ InList(AssistantEntry(t, 2), store[turn[t].chan].entries)

\* ---------------------------------------------------------------- C18
\* C18: what a turn replies with is the text of its final chat call: with
\* host-handled calls in the first response it is the follow-up call's text
\* and never the first call's, without any it is the first call's text (the
\* filler standing in for a final call without text); and that is the reply
\* the turn ends with.
C18_ReplyIsFinalText ==
  [][\A t \in Turns :
       LET tr == turn[t]
           nx == turn'[t]
       IN /\ nx.pc = "reply" =>
               IF Len(nx.calls) > 0
                 THEN /\ Len(nx.chatCalls) = 2
                      /\ nx.replyWith =
                           IF InList(AssistantEntry(t, 2), nx.working) THEN "text2" ELSE "filler"
                 ELSE /\ Len(nx.chatCalls) = 1
                      /\ nx.replyWith =
                           IF InList(AssistantEntry(t, 1), nx.working) THEN "text1" ELSE "filler"
          /\ (tr.pc = "reply" /\ nx.pc # "reply") =>
               /\ nx.pc = "done"
               /\ nx.replies = <<tr.replyWith>>]_vars

\* A turn whose first response had both a text and a host-handled call has
\* ended with the follow-up's text as its reply; the first call's text is in
\* the stored list but was not sent.
C18_Witness ==
  \E t \in Turns :
    /\ turn[t].pc = "done"
    /\ turn[t].replies = <<"text2">>
    /\ turn[t].chan \in DOMAIN store
    /\ InList(AssistantEntry(t, 1), store[turn[t].chan].entries)
    /\ InList(AssistantEntry(t, 2), store[turn[t].chan].entries)
    /\ InList(ToolCallEntry(<<t, 1, 1>>, "generate_image", "-"), store[turn[t].chan].entries)

\* ---------------------------------------------------------------- C19
\* The final chat call of the turn returned no text: its output put no
\* assistant entry at the end of the working list.
FinalCallSilent(tr, t) ==
  ~InList(AssistantEntry(t, Len(tr.chatCalls)), tr.working)

\* C19: a turn whose final chat call returned no text replies with the
\* filler, once; every turn whose chat calls returned ends with exactly one
\* reply, which is never empty, and with its working list persisted.
C19_FillerNeverSilence ==
  [][\A t \in Turns :
       LET tr == turn[t]
           nx == turn'[t]
       IN /\ (nx.pc = "reply" /\ FinalCallSilent(nx, t)) => nx.replyWith = "filler"
          /\ nx.pc = "reply" => nx.replyWith \in {"text1", "text2", "filler"}
          /\ (tr.pc \in {"first", "followup"} /\ nx.pc \notin {"first", "followup"}) =>
               nx.pc \in {"tool", "reply", "apology"}
          /\ (tr.pc = "reply" /\ nx.pc # "reply") =>
               /\ nx.pc = "done"
               /\ nx.replies = <<tr.replyWith>>
               /\ tr.chan \in DOMAIN store'
               /\ store'[tr.chan].entries = tr.working
               /\ store'[tr.chan].timestamp = now]_vars

\* A turn has ended with the filler as its one reply after a follow-up call
\* without text, and its list, the user entry and the tool_result included,
\* is stored.
C19_Witness ==
  \E t \in Turns :
    /\ turn[t].pc = "done"
    /\ turn[t].replies = <<"filler">>
    /\ turn[t].chan \in DOMAIN store
    /\ InList(UserEntry(t), store[turn[t].chan].entries)
    /\ \E i \in 1..Len(store[turn[t].chan].entries) :
         /\ store[turn[t].chan].entries[i].kind = "tool_result"
         /\ store[turn[t].chan].entries[i].id = <<t, 1, 1>>
    /\ ~InList(AssistantEntry(t, 2), store[turn[t].chan].entries)

\* ---------------------------------------------------------------- C24
\* No function call among the output entries of a response
NoToolCalls(es) == \A i \in 1..Len(es) : es[i].kind # "tool_call"

\* The turn found no live state when it started, and its one chat call has
\* returned a text and no function call.
FreshPlainTurn(tr) ==
  /\ tr.pc = "reply" /\ tr.pre = None
  /\ Len(tr.chatCalls) = 1
  /\ NoToolCalls(tr.working)
  /\ tr.replyWith # "filler"

\* C24: a turn that finds no live state and whose provider call returns a
\* text and no tool call.  Its entry list is the developer entry written for
\* the resolved provider, then at most 10 fetched messages, oldest first and
\* none of another bot, then the user entry, then the assistant output; the
\* provider was called once, with tool choice auto; the reply is the returned
\* text; and the state persisted holds that provider's id and that list.
C24_FreshChannelScenario ==
  [][\A t \in Turns :
       (FreshPlainTurn(turn[t]) /\ turn'[t].pc = "done") =>
         LET tr == turn[t]
             n == Len(tr.working)
             hist == SubSeq(tr.working, 2, n - 2)
         IN /\ n >= 3 /\ Len(hist) <= 10
            /\ tr.working[1] = DevEntry(tr.provider)
            /\ \E batch \in FetchBatches :
                 /\ \A i \in 1..Len(hist) :
                      \E j \in 1..Len(batch) :
                        /\ batch[j].author # "otherbot"
                        /\ hist[i] = HistEntry(IF batch[j].author = "self" THEN "assistant"
                                               ELSE "user", batch[j].mid)
                 /\ \A j \in 1..Len(batch) :
                      batch[j].author # "otherbot" =>
                        \E i \in 1..Len(hist) : hist[i].id = <<batch[j].mid>>
            /\ \A i \in 1..(Len(hist) - 1) : hist[i].id[1] < hist[i + 1].id[1]
            /\ tr.working[n - 1] = UserEntry(t)
            /\ tr.working[n] = AssistantEntry(t, 1)
            /\ tr.chatCalls = <<[to |-> tr.provider, toolChoice |-> "auto",
                                 thoughts |-> NoThoughts]>>
            /\ turn'[t].replies = <<"text1">>
            /\ tr.chan \in DOMAIN store'
            /\ store'[tr.chan].providerId = tr.provider
            /\ store'[tr.chan].entries = tr.working]_vars

\* The first turn of a run has replied with the returned text and the
\* channel holds the five entries of the scenario.
C24_Witness ==
  /\ turn[1].pc = "done" /\ turn[1].pre = None
  /\ turn[1].replies = <<"text1">>
  /\ turn[2].pc = "idle"
  /\ FirstChannel \in DOMAIN store
  /\ store[FirstChannel].providerId = "openai"
  /\ store[FirstChannel].entries =
       <<DevEntry("openai"), HistEntry("user", 1), HistEntry("assistant", 3),
         UserEntry(1), AssistantEntry(1, 1)>>

\* ---------------------------------------------------------------- C28
\* The step is one of invocation t itself.
OwnStep(t) == turn'[t].pc # turn[t].pc \/ turn'[t].idx # turn[t].idx

\* The store holds for channel c after the step what it held before.
StoreKept(c) ==
  /\ (c \in DOMAIN store') = (c \in DOMAIN store)
  /\ c \in DOMAIN store => store'[c] = store[c]

\* C28 as stated: between reading the channel's state at the start of a turn
\* and the Persisted step at its end, no step of the turn writes the store
\* for that channel.
C28_ReadOnceWriteOnce ==
  [][\A t \in Turns :
       (turn[t].pc \in {"fetch", "first", "tool", "followup"} /\ OwnStep(t))
         => StoreKept(turn[t].chan)]_vars

\* ---------------------------------------------------------------- C29
\* Output entries of chat call k of turn t: its function calls and its text
OutputOf(es, t, k) ==
  \A i \in 1..Len(es) :
    \/ es[i] = AssistantEntry(t, k)
    \/ es[i].kind = "tool_call" /\ es[i].id[1] = t /\ es[i].id[2] = k

\* The entries a turn started from: those of the state it read, or on a
\* fresh channel the initial history; the leading developer entry may have
\* been rewritten, nothing else.
StartedFrom(base, pre) ==
  /\ Len(base) >= 1
  /\ \E p \in ProviderIds : base[1] = DevEntry(p)
  /\ IF pre.some
       THEN /\ Len(base) = Len(pre.val.entries)
            /\ \A i \in 2..Len(base) : base[i] = pre.val.entries[i]
       ELSE \E batch \in FetchBatches : Tail(base) = HistoryEntries(batch)

\* C29: the Persisted step of a successful turn is one set of the channel's
\* state: its provider id is the provider of the turn's last chat call, and
\* its entry list is the entries the turn started from (at most the leading
\* developer entry rewritten), the user entry, the first call's output
\* entries, the tool results in call order, the follow-up's output entries.
C29_PersistedComposition ==
  [][\A t \in Turns :
       (turn[t].pc = "reply" /\ turn'[t].pc = "done") =>
         LET tr == turn[t]
             w == tr.working
             nr == Len(tr.toolResults)
         IN /\ tr.chan \in DOMAIN store'
            /\ store'[tr.chan].providerId = tr.chatCalls[Len(tr.chatCalls)].to
            /\ store'[tr.chan].entries = w
            /\ \A c \in Channels \ {tr.chan} : StoreKept(c)
            /\ nr = (IF Len(tr.chatCalls) = 2 THEN Len(tr.calls) ELSE 0)
            /\ \A k \in 1..nr : tr.toolResults[k].kind = "tool_result"
                                  /\ tr.toolResults[k].id = tr.calls[k].id
            /\ \E n1 \in 0..Len(w), n2 \in 0..Len(w) :
                 LET nb == Len(w) - 1 - n1 - nr - n2
                 IN /\ nb >= 1
                    /\ Len(tr.chatCalls) = 1 => n2 = 0
                    /\ StartedFrom(SubSeq(w, 1, nb), tr.pre)
                    /\ w[nb + 1] = UserEntry(t)
                    /\ OutputOf(SubSeq(w, nb + 2, nb + 1 + n1), t, 1)
                    /\ SubSeq(w, nb + 2 + n1, nb + 1 + n1 + nr) = tr.toolResults
                    /\ OutputOf(SubSeq(w, nb + 2 + n1 + nr, Len(w)), t, 2)]_vars

\* The second turn on a channel has persisted: the first turn's entries, its
\* user entry, two function calls, their two results and the follow-up text.
C29_Witness ==
  /\ turn[1].pc = "done" /\ turn[2].pc = "done"
  /\ turn[2].chan = turn[1].chan /\ turn[2].pre # None /\ ~turn[2].overlap
  /\ turn[2].chan \in DOMAIN store
  /\ LET es == store[turn[2].chan].entries
         n == Len(es)
     IN /\ n >= Len(turn[2].pre.val.entries) + 6
        /\ es[n] = AssistantEntry(2, 2)
        /\ es[n - 1].kind = "tool_result" /\ es[n - 1].id = <<2, 1, 2>>
        /\ es[n - 2].kind = "tool_result" /\ es[n - 2].id = <<2, 1, 1>>
        /\ es[n - 5] = UserEntry(2)

\* ---------------------------------------------------------------- C31
\* Invocation t invokes a catalog handler in the step.
HandlerInvoked(t) == Len(turn'[t].execs) > Len(turn[t].execs)

\* The call whose handler invocation t has just invoked.
InvokedCall(t) == turn'[t].calls[turn'[t].idx]

\* The handler invoked was switch_provider and the registry accepted the id.
SwitchAccepted(t) ==
  /\ InvokedCall(t).name = "switch_provider"
  /\ turn'[t].pending = SwitchedText(InvokedCall(t).arg)

C34_ContextIsCurrentProvider ==
  \A t \in Turns :
    \A e \in 1..Len(turn[t].execs) :
      turn[t].execs[e].resolved = Some(turn[t].execs[e].providerId)

\* ---------------------------------------------------------------- C36
\* The entry is a developer or system message.
IsInstruction(e) == e.kind = "message" /\ e.role \in {"developer", "system"}

\* C36: every conversation state in the store starts with a developer
\* message and holds no other developer or system message.
C36_DeveloperFirst ==
  \A c \in DOMAIN store :
    LET es == store[c].entries
    IN /\ Len(es) >= 1
       /\ es[1].kind = "message" /\ es[1].role = "developer"
       /\ \A i \in 2..Len(es) : ~IsInstruction(es[i])

\* A turn that switched the channel to grok has persisted its state: the
\* developer entry written for grok leads, tool entries follow.
C36_Witness ==
  /\ turn[1].pc = "done"
  /\ turn[1].switchPath
  /\ FirstChannel \in DOMAIN store
  /\ store[FirstChannel].providerId = "grok"
  /\ store[FirstChannel].entries[1] = DevEntry("grok")
  /\ \E i \in 2..Len(store[FirstChannel].entries) :
       store[FirstChannel].entries[i].kind = "tool_result"

\* ---------------------------------------------------------------- C37
\* No turn on channel c is in flight and none has run while another turn on
\* the channel was in flight.
Quiet(c) ==
  \A t \in Turns : turn[t].chan = c => ~InFlight(t) /\ ~turn[t].overlap

\* C37: with no overlapping turns on a channel, whenever no turn on it is in
\* flight and it has a live stored state, the state's provider id is the id
\* of the provider the registry resolves for the channel.
C37_StateFollowsRegistry ==
  \A c \in Channels :
    (Quiet(c) /\ GetRet(store, now, c).some)
      => Resolve(c) = Some(store[c].providerId)

\* A turn on c1 switched the channel to grok and then failed; the state it
\* left is live, under grok, and grok is what the channel resolves to.
C37_Witness ==
  /\ turn[1].pc = "failed"
  /\ turn[1].chan = FirstChannel
  /\ turn[1].switchPath
  /\ Quiet(FirstChannel)
  /\ GetRet(store, now, FirstChannel).some
  /\ store[FirstChannel].providerId = "grok"
  /\ Resolve(FirstChannel) = Some("grok")

\* ---------------------------------------------------------------- C38
\* Continuation data `th` is none or was returned by provider p.
OwnThoughts(th, p) == th.by \in {"none", p}

\* C38 as stated: no chat call to a provider is given continuation data
\* another provider returned, and no stored state pairs a provider id with
\* continuation data another provider returned.
C38_ContinuationStaysWithProvider ==
  /\ \A t \in Turns :
       \A k \in 1..Len(turn[t].chatCalls) :
         OwnThoughts(turn[t].chatCalls[k].thoughts, turn[t].chatCalls[k].to)
  /\ \A c \in DOMAIN store : OwnThoughts(store[c].thoughts, store[c].providerId)

\* ---------------------------------------------------------------- C39
\* C39: a step of a turn on one channel leaves every other channel's pin as
\* it is, and every other channel's stored state as it is, except that it
\* may evict a state that has expired.
C39_ChannelsIsolated ==
  [][\A t \in Turns :
       OwnStep(t) =>
         \A b \in Channels \ {turn'[t].chan} :
           /\ (b \in DOMAIN pins') = (b \in DOMAIN pins)
           /\ b \in DOMAIN pins => pins'[b] = pins[b]
           /\ b \in DOMAIN store' => (b \in DOMAIN store /\ store'[b] = store[b])
           /\ (b \in DOMAIN store /\ ~Expired(store[b], now)) => b \in DOMAIN store']_vars

\* A turn on c2 has switched its channel to grok while c1 holds the live
\* state a finished turn persisted under openai, and no pin.
C39_Witness ==
  /\ turn[1].pc = "done" /\ turn[1].chan = "c1"
  /\ turn[2].chan = "c2" /\ turn[2].switchPath /\ turn[2].pc = "followup"
  /\ "c2" \in DOMAIN pins /\ pins["c2"] = "grok"
  /\ "c1" \notin DOMAIN pins
  /\ GetRet(store, now, "c1").some
  /\ store["c1"].providerId = "openai"

\* ------------------------------------------- typing-loop specification
\* One handleMention invocation with the steps of its typing loop.

MaxTypingCalls == 3

\* The awaited sendTyping resolves (lines 364-366).
TypingResolves(t) ==
  /\ turn[t].typing.inflight
  /\ turn' = [turn EXCEPT ![t].typing =
                [@ EXCEPT !.inflight = FALSE, !.armed = @ \/ turn[t].typing.active]]
  /\ UNCHANGED <<store, now, ticks, lastOp, registry>>

\* The awaited sendTyping rejects (lines 359-363).
TypingRejects(t) ==
  /\ turn[t].typing.inflight
  /\ turn' = [turn EXCEPT ![t].typing =
                [@ EXCEPT !.inflight = FALSE, !.active = FALSE, !.failed = TRUE]]
  /\ UNCHANGED <<store, now, ticks, lastOp, registry>>

\* The timer fires: tick() (lines 355-358).
TimerFires(t) ==
  /\ turn[t].typing.armed
  /\ turn[t].typing.started < MaxTypingCalls
  /\ turn' = [turn EXCEPT ![t].typing =
                IF @.active
                  THEN [@ EXCEPT !.armed = FALSE, !.inflight = TRUE, !.started = @ + 1]
                  ELSE [@ EXCEPT !.armed = FALSE]]
  /\ UNCHANGED <<store, now, ticks, lastOp, registry>>

TypingNext ==
  \/ \E c \in Channels : Mention(1, c)
  \/ FetchReturns(1)
  \/ FetchThrows(1)
  \/ FirstReturns(1)
  \/ ChatThrows(1)
  \/ ToolSettles(1)
  \/ FollowUpReturns(1)
  \/ ReplySent(1)
  \/ ApologySent(1)
  \/ TypingResolves(1)
  \/ TypingRejects(1)
  \/ TimerFires(1)

SpecTyping == Init /\ [][TypingNext]_vars

\* ---------------------------------------------------------------- C20
\* handleMention is over: it returned or threw.
TurnOver(tr) == tr.pc \in {"done", "failed", "escaped", "noprovider"}

\* C20 as stated: no sendTyping call is started for a turn that is over,
\* whichever way it ended, nor after a sendTyping call of the turn failed.
C20_IndicatorStops ==
  [][\A t \in Turns :
       turn'[t].typing.started > turn[t].typing.started =>
         (~TurnOver(turn[t]) /\ ~turn[t].typing.failed)]_vars

\* ------------------------------------------------ tool-loop-only specification
\* The tool loop of handleMention (lines 83-165) on any list of host-handled
\* calls an adapter's response may hold, names without a toolDefinition
\* included.  The adapters of this repository build their host-handled tools
\* from toolDefinitions, so the orchestrator specification never meets such
\* a name; here the list is an input.

MaxLoopCalls == 2

LoopNames == ToolCatalog \cup {"legacy_tool"}

LoopCalls == {Call(n, IF n = "switch_provider" THEN "grok" ELSE "-") : n \in LoopNames}

RECURSIVE Plans(_)
\* The call lists of length 1 to n
Plans(n) ==
  IF n = 0 THEN {}
  ELSE {<<c>> : c \in LoopCalls}
         \cup {Append(pl, c) : pl \in Plans(n - 1), c \in LoopCalls}

\* handleMention at line 83 of its first turn on FirstChannel, the first
\* response having returned the host-handled calls of `plan` and no text.
LoopTurn(plan) ==
  LET r == [text |-> FALSE, calls |-> WithIds(plan, 1, 1), thoughts |-> NoThoughts]
  IN [IdleTurn EXCEPT !.pc = "loop", !.chan = FirstChannel,
                      !.provider = "openai", !.activeProvider = "openai",
                      !.working = <<DevEntry("openai"), UserEntry(1)>> \o OutputEntries(r, 1, 1),
                      !.calls = r.calls,
                      !.chatCalls = <<FirstCall("openai", NoThoughts)>>,
                      !.pre = Some([providerId |-> "openai", entries |-> <<DevEntry("openai")>>,
                                    thoughts |-> NoThoughts])]

LoopInit ==
  /\ store = MapSet(<< >>, FirstChannel, State("openai", <<DevEntry("openai")>>, 0, NoThoughts))
  /\ now = 0
  /\ ticks = 0
  /\ lastOp = NoOp
  /\ providers = ProviderIds
  /\ pins = << >>
  /\ creds = ProviderIds
  /\ dflt = "openai"
  /\ regLog = [passes |-> 1, built |-> Cardinality(ProviderIds)]
  /\ \E plan \in Plans(MaxLoopCalls) :
       turn = [t \in Turns |-> IF t = 1 THEN LoopTurn(plan) ELSE IdleTurn]

\* Lines 83-85: the loop is entered.
LoopStarts(t) ==
  /\ turn[t].pc = "loop"
  /\ LET go == ToolLoop(turn[t], 1, <<>>, store, EnsureRegistered(providers, creds),
                        pins, dflt, now)
     IN /\ turn' = [turn EXCEPT ![t] = go.tr]
        /\ store' = go.store
        /\ pins' = go.pins
  /\ UNCHANGED <<now, ticks, lastOp, providers, creds, dflt, regLog>>

LoopNext ==
  \/ \E t \in Turns : LoopStarts(t)
  \/ \E t \in Turns : ToolSettles(t)
  \/ \E t \in Turns : FollowUpReturns(t)
  \/ \E t \in Turns : ChatThrows(t)
  \/ \E t \in Turns : ReplySent(t)
  \/ \E t \in Turns : ApologySent(t)

SpecLoop == LoopInit /\ [][LoopNext]_vars

\* ---------------------------------------------------------------- C15
\* C15: for a host-handled call whose name has no toolDefinition no handler
\* is run and the call's tool_result, with its id, declines support; every
\* call that has a toolDefinition still gets its handler run, in order, and
\* the follow-up chat call is issued once each call has its tool_result.
C15_MissingToolDeclined ==
  \A t \in Turns :
    LET tr == turn[t]
    IN /\ \A k \in 1..Len(tr.calls) :
            tr.calls[k].name \notin ToolCatalog =>
              /\ \A i \in 1..Len(tr.execs) : tr.execs[i].id # tr.calls[k].id
              /\ tr.pc = "tool" => tr.idx # k
              /\ k <= Len(tr.toolResults) =>
                   tr.toolResults[k] =
                     ToolResultEntry(tr.calls[k].id, tr.calls[k].name,
                        <<"The tool", tr.calls[k].name, "is not supported by this bot.">>)
       /\ tr.pc \in {"followup", "reply"} =>
            /\ Len(tr.chatCalls) = 2
            /\ Len(tr.toolResults) = Len(tr.calls)
            /\ \A k \in 1..Len(tr.calls) :
                 /\ tr.toolResults[k].id = tr.calls[k].id
                 /\ InList(tr.toolResults[k], tr.working)
                 /\ tr.calls[k].name \in ToolCatalog =>
                      \E i \in 1..Len(tr.execs) : tr.execs[i].id = tr.calls[k].id

\* The follow-up call has returned in a turn whose first call had no
\* toolDefinition and whose second call had one: one handler ran, for the
\* second call, and the first call's tool_result declines support.
C15_Witness ==
  /\ turn[1].pc = "reply"
  /\ Len(turn[1].calls) = 2
  /\ turn[1].calls[1].name = "legacy_tool"
  /\ turn[1].calls[2].name = "summarize_messages"
  /\ Len(turn[1].execs) = 1
  /\ turn[1].execs[1].id = <<1, 1, 2>>
  /\ turn[1].toolResults[1].content = <<"The tool", "legacy_tool", "is not supported by this bot.">>

\* ----------------------------------------------- registry-only specification

MaxRegistryCalls == 4

\* Provider ids a caller may pass: the backends' ids, an id of no backend,
\* and the empty id (getProvider's `!providerId` case).
RegistryArgs == ProviderIds \cup {"nope", ""}

\* The registry call a step made: its name, channel, id argument, the
\* provider returned (by id), the error returned, and for listProviders the
\* providers listed.
RegOp(o, c, a, r, e, l) == [op |-> o, ch |-> c, arg |-> a, ret |-> r, err |-> e, list |-> l]

RegistryInit ==
  /\ store = << >>
  /\ now = 0
  /\ ticks = 0
  /\ lastOp = RegOp("init", "-", "-", None, None, {})
  /\ providers = {}
  /\ pins = << >>
  /\ creds \in SUBSET ProviderIds
  /\ dflt \in ProviderIds
  /\ regLog = NoPasses
  /\ turn = << >>

\* Every exported function but getActiveProviderId (and getProviderForChannel
\* through getProvider) starts with ensureProvidersRegistered().
RegistryCall(op) ==
  /\ ticks < MaxRegistryCalls
  /\ ticks' = ticks + 1
  /\ providers' = EnsureRegistered(providers, creds)
  /\ regLog' = EnsureLog(providers, creds, regLog)
  /\ lastOp' = op
  /\ UNCHANGED <<store, now, creds, dflt, turn>>

RegListProviders ==
  /\ RegistryCall(RegOp("listProviders", "-", "-", None, None,
                        EnsureRegistered(providers, creds)))
  /\ pins' = pins

RegGetProvider(pid) ==
  /\ RegistryCall(RegOp("getProvider", "-", pid,
                        GetProvider(EnsureRegistered(providers, creds), dflt, pid), None, {}))
  /\ pins' = pins

RegGetProviderForChannel(c) ==
  /\ RegistryCall(RegOp("getProviderForChannel", c, "-",
                        GetProviderForChannel(EnsureRegistered(providers, creds), pins, dflt, c),
                        None, {}))
  /\ pins' = pins

RegSetProviderForChannel(c, pid) ==
  LET r == SetProviderForChannel(EnsureRegistered(providers, creds), pins, c, pid)
  IN /\ RegistryCall(RegOp("setProviderForChannel", c, pid, r.provider,
                           IF r.error.some THEN Some(NotRegisteredText(r.error.val)) ELSE None,
                           {}))
     /\ pins' = r.pins

\* getActiveProviderId(channelId) reads the pin map alone.
RegGetActiveProviderId(c) ==
  /\ ticks < MaxRegistryCalls
  /\ ticks' = ticks + 1
  /\ lastOp' = RegOp("getActiveProviderId", c, "-",
                     Some(IF c \in DOMAIN pins THEN pins[c] ELSE dflt), None, {})
  /\ UNCHANGED <<store, now, registry, turn>>

RegistryNext ==
  \/ RegListProviders
  \/ \E pid \in RegistryArgs : RegGetProvider(pid)
  \/ \E c \in Channels : RegGetProviderForChannel(c)
  \/ \E c \in Channels, pid \in RegistryArgs \ {""} : RegSetProviderForChannel(c, pid)
  \/ \E c \in Channels : RegGetActiveProviderId(c)

SpecRegistry == RegistryInit /\ [][RegistryNext]_vars

\* ---------------------------------------------------------------- C11
\* C11: setProviderForChannel(c, id) with an id of no registered provider
\* (no backend of that id has its credential) returns the "not registered"
\* error and no provider and leaves every pin as it was; with a registered
\* id it returns that provider and no error, and pins c, and only c, to it.
C11_SetProviderResult ==
  [][lastOp'.op = "setProviderForChannel" =>
       IF lastOp'.arg \notin creds
         THEN /\ lastOp'.err = Some(<<"Provider", lastOp'.arg, "is not registered.">>)
              /\ lastOp'.ret = None
              /\ pins' = pins
         ELSE /\ lastOp'.err = None
              /\ lastOp'.ret = Some(lastOp'.arg)
              /\ DOMAIN pins' = DOMAIN pins \cup {lastOp'.ch}
              /\ pins'[lastOp'.ch] = lastOp'.arg
              /\ \A x \in DOMAIN pins \ {lastOp'.ch} : pins'[x] = pins[x]]_vars

\* A set with the id of a backend without credential has just been refused
\* while another backend is registered and the channel is pinned to it.
C11_Witness ==
  /\ lastOp.op = "setProviderForChannel"
  /\ lastOp.arg = "grok" /\ lastOp.err # None
  /\ providers = {"openai"}
  /\ lastOp.ch \in DOMAIN pins /\ pins[lastOp.ch] = "openai"

\* ---------------------------------------------------------------- C12
\* C12 as stated: once a registry access has run the registration pass, no
\* later registry call runs it again, constructs an adapter or changes the
\* set of registered providers, whatever credentials are configured.
C12_RegistersOnce ==
  [][regLog.passes >= 1 => (regLog' = regLog /\ providers' = providers)]_vars

\* ------------------------------------------------- stalled-call specification

\* A chat call that never settles (lines 69-74, 139-144): the invocation
\* stays at its await for good.  One call of a run hangs at most.
ChatHangs(t) ==
  /\ turn[t].pc \in {"first", "followup"}
  /\ \A u \in Turns : turn[u].pc # "hung"
  /\ turn' = [turn EXCEPT ![t].pc = "hung"]
  /\ UNCHANGED <<store, now, ticks, lastOp, registry>>

\* The continuation of an invocation whose awaited call has returned
Returns(t) ==
  \/ FetchReturns(t)
  \/ FirstReturns(t)
  \/ ToolSettles(t)
  \/ FollowUpReturns(t)
  \/ ReplySent(t)

\* Runs in which every external call returns, but for one chat call that may
\* hang; the event loop runs the continuation of every call that returned.
StallNext ==
  \/ \E t \in Turns, c \in Channels : Mention(t, c)
  \/ \E t \in Turns : FetchReturns(t)
  \/ \E t \in Turns : FirstReturns(t)
  \/ \E t \in Turns : ToolSettles(t)
  \/ \E t \in Turns : FollowUpReturns(t)
  \/ \E t \in Turns : ReplySent(t)
  \/ \E t \in Turns : ChatHangs(t)

SpecStall == Init /\ [][StallNext]_vars /\ \A t \in Turns : WF_vars(Returns(t))

\* ---------------------------------------------------------------- C21
\* C21: a chat call that never returns stalls only its own turn.  While one
\* turn hangs, a turn in flight on another channel, started before or after
\* it, goes on to send its reply and to persist its state, its own external
\* calls returning.
C21_StallIsolated ==
  \A t \in Turns : \A u \in Turns \ {t} :
    (turn[u].pc = "hung" /\ InFlight(t) /\ turn[t].chan # turn[u].chan)
      ~> (turn[t].pc = "done" /\ Len(turn[t].replies) = 1 /\ turn[t].chan \in DOMAIN store)

\* The second turn has replied and persisted on its channel while the first
\* one hangs on another.
C21_Witness ==
  /\ turn[1].pc = "hung" /\ turn[2].pc = "done"
  /\ turn[1].chan # turn[2].chan
  /\ turn[2].chan \in DOMAIN store

\* ------------------------------------------------- summarize specification
\* summarize_messages as the catalog handler runs it (tools.ts 25-32):
\* OpenAIProvider.summarizeMessages, and for the other adapters
\* prepareSummaryPrompt inside their summarizeMessages; the validation, the
\* paging loop and the texts are the same in both.

\* Messages the channel holds
MaxHistory == 3

\* The `limit` of one channel.messages.fetch (100 in the source)
MaxPageSize == 1

\* The fetches one call may make (50 in the source)
MaxPages == 2

\* 7 * 24 * 60 * 60 * 1000
MaxTimeframe == 7 * 24 * 60 * 60 * 1000

\* start_time / end_time as the handler passes them on: String(args.x ?? '')
TimeArgs ==
  { "", "next friday",
    "2025-10-01T00:00:00.000Z", "2025-10-01T00:00:00.001Z",
    "2025-10-08T00:00:00.000Z", "2025-10-08T00:00:00.001Z" }

\* new Date(s).getTime(), in milliseconds after 2025-10-01T00:00:00Z; NaN is
\* None
ParseDate(s) ==
  CASE s = "2025-10-01T00:00:00.000Z" -> Some(0)
    [] s = "2025-10-01T00:00:00.001Z" -> Some(1)
    [] s = "2025-10-08T00:00:00.000Z" -> Some(MaxTimeframe)
    [] s = "2025-10-08T00:00:00.001Z" -> Some(MaxTimeframe + 1)
    [] OTHER -> None

InvalidDateText == <<"Invalid date format. Please use ISO 8601 format.">>

MaxTimeframeText == <<"The maximum timeframe for a summary is one week.">>

OrderText == <<"The start time must be before the end time.">>

NoMessagesText == <<"I found no messages in that time range to summarize.">>

UnableText == <<"I was unable to generate a summary.">>

SummaryErrorText == <<"An error occurred while trying to summarize the messages.">>

\* A validation that lets unparsable timestamps through.
SummaryValidationLenient(startTime, endTime) ==
  LET startDate == ParseDate(startTime)
      endDate == ParseDate(endTime)
  IN IF ~startDate.some \/ ~endDate.some THEN None
     ELSE IF endDate.val - startDate.val > MaxTimeframe THEN Some(MaxTimeframeText)
     ELSE IF startDate.val > endDate.val THEN Some(OrderText)
     ELSE None

\* A validation that rejects a window of a week or more, and an empty one.
SummaryValidationStrict(startTime, endTime) ==
  LET startDate == ParseDate(startTime)
      endDate == ParseDate(endTime)
  IN IF ~startDate.some \/ ~endDate.some THEN Some(InvalidDateText)
     ELSE IF endDate.val - startDate.val >= MaxTimeframe THEN Some(MaxTimeframeText)
     ELSE IF startDate.val >= endDate.val THEN Some(OrderText)
     ELSE None

\* The three checks before the first fetch: the error text, or None
SummaryValidation(startTime, endTime) ==
  LET startDate == ParseDate(startTime)
      endDate == ParseDate(endTime)
  IN IF ~startDate.some \/ ~endDate.some THEN Some(InvalidDateText)
     ELSE IF endDate.val - startDate.val > MaxTimeframe THEN Some(MaxTimeframeText)
     ELSE IF startDate.val > endDate.val THEN Some(OrderText)
     ELSE None

\* msg.createdAt >= startDate && msg.createdAt <= endDate && !msg.author.bot;
\* a comparison with an Invalid Date is false
Qualifies(msg, startDate, endDate) ==
  /\ startDate.some /\ endDate.some
  /\ msg.at >= startDate.val /\ msg.at <= endDate.val
  /\ ~msg.bot

\* channel.messages.fetch({limit, before}): the next messages, newest first,
\* after the `n` already paged
Chunk(history, n) ==
  SubSeq(history, n + 1, IF n + MaxPageSize <= Len(history) THEN n + MaxPageSize
                         ELSE Len(history))

\* createdAt of the channel's messages, in milliseconds after
\* 2025-10-01T00:00:00Z
MessageTimes == {0 - 1, 0, MaxTimeframe, MaxTimeframe + 1}

ChannelMessages == [at : MessageTimes, bot : BOOLEAN]

\* The channel's messages newest first, as Discord pages them
Histories ==
  { h \in UNION { [1..n -> ChannelMessages] : n \in 0..MaxHistory } :
      \A i \in 1..(Len(h) - 1) : h[i].at >= h[i + 1].at }

\* A summarizeMessages call: its arguments, where it is, the loop's locals,
\* the fetches and backend requests made so far, and what it returned.
SummaryCall(h) ==
  [ op |-> "init", history |-> h, start |-> "", end |-> "", pc |-> "idle",
    page |-> 0, paged |-> 0, collected |-> <<>>, fetches |-> 0, requests |-> 0,
    prompt |-> <<>>, ret |-> None, threw |-> FALSE ]

SummarizeInit ==
  /\ store = << >>
  /\ now = 0
  /\ ticks = 0
  /\ \E h \in Histories : lastOp = SummaryCall(h)
  /\ providers = ProviderIds
  /\ pins = << >>
  /\ creds = ProviderIds
  /\ dflt = "openai"
  /\ regLog = NoPasses
  /\ turn = << >>

\* The call returns `text`.
SummaryReturned(op, text) == [op EXCEPT !.pc = "returned", !.ret = Some(text)]

\* After the loop (lines 48-58 of prepareSummaryPrompt): nothing collected,
\* or the prompt is built oldest first and the backend request is made.
AfterPaging(op, collected) ==
  IF Len(collected) = 0
    THEN SummaryReturned([op EXCEPT !.collected = collected], NoMessagesText)
    ELSE [op EXCEPT !.pc = "requesting", !.collected = collected,
                    !.prompt = Reverse(collected), !.requests = @ + 1]

\* The handler is invoked: validation, then the first fetch.
SummarizeCalled(startTime, endTime) ==
  /\ lastOp.op = "init"
  /\ LET op == [lastOp EXCEPT !.op = "summarizeMessages", !.start = startTime, !.end = endTime]
         error == SummaryValidation(startTime, endTime)
     IN lastOp' = IF error.some THEN SummaryReturned(op, error.val)
                  ELSE [op EXCEPT !.pc = "fetching", !.page = 1, !.fetches = 1]
  /\ UNCHANGED <<store, now, ticks, registry, turn>>

\* A paging loop that stops at an empty batch only.
SummaryFetchReturnsUncapped ==
  /\ lastOp.pc = "fetching"
  /\ LET chunk == Chunk(lastOp.history, lastOp.paged)
         startDate == ParseDate(lastOp.start)
         endDate == ParseDate(lastOp.end)
         collected == lastOp.collected
                        \o SelectSeq(chunk, LAMBDA msg : Qualifies(msg, startDate, endDate))
     IN lastOp' =
          IF Len(chunk) = 0 THEN AfterPaging(lastOp, lastOp.collected)
          ELSE [lastOp EXCEPT !.collected = collected, !.page = @ + 1,
                              !.paged = @ + Len(chunk), !.fetches = @ + 1]
  /\ UNCHANGED <<store, now, ticks, registry, turn>>

\* A fetch of the paging loop resolves (lines 26-45).
SummaryFetchReturns ==
  /\ lastOp.pc = "fetching"
  /\ LET chunk == Chunk(lastOp.history, lastOp.paged)
         startDate == ParseDate(lastOp.start)
         endDate == ParseDate(lastOp.end)
         collected == lastOp.collected
                        \o SelectSeq(chunk, LAMBDA msg : Qualifies(msg, startDate, endDate))
     IN lastOp' =
          IF Len(chunk) = 0 THEN AfterPaging(lastOp, lastOp.collected)
          ELSE IF startDate.some /\ chunk[Len(chunk)].at < startDate.val
            THEN AfterPaging(lastOp, collected)
          ELSE IF lastOp.page < MaxPages
            THEN [lastOp EXCEPT !.collected = collected, !.page = @ + 1,
                                !.paged = @ + Len(chunk), !.fetches = @ + 1]
          ELSE AfterPaging(lastOp, collected)
  /\ UNCHANGED <<store, now, ticks, registry, turn>>

\* A fetch rejects: summarizeMessages catches it.
SummaryFetchThrows ==
  /\ lastOp.pc = "fetching"
  /\ lastOp' = SummaryReturned(lastOp, SummaryErrorText)
  /\ UNCHANGED <<store, now, ticks, registry, turn>>

\* The backend answers the summary request, with a text or without.
SummaryRequestReturns ==
  /\ lastOp.pc = "requesting"
  /\ \E hasText \in BOOLEAN :
       lastOp' = SummaryReturned(lastOp, IF hasText THEN <<"summary of", lastOp.prompt>>
                                         ELSE UnableText)
  /\ UNCHANGED <<store, now, ticks, registry, turn>>

\* sendTyping or the summary request rejects: caught as well.
SummaryRequestThrows ==
  /\ lastOp.pc = "requesting"
  /\ lastOp' = SummaryReturned(lastOp, SummaryErrorText)
  /\ UNCHANGED <<store, now, ticks, registry, turn>>

SummarizeNext ==
  \/ \E startTime \in TimeArgs, endTime \in TimeArgs : SummarizeCalled(startTime, endTime)
  \/ SummaryFetchReturns
  \/ SummaryFetchThrows
  \/ SummaryRequestReturns
  \/ SummaryRequestThrows

SpecSummarize == SummarizeInit /\ [][SummarizeNext]_vars

\* Some message of the channel lies in the window and is no bot's.
AnyQualifying(h, startTime, endTime) ==
  \E i \in 1..Len(h) : Qualifies(h[i], ParseDate(startTime), ParseDate(endTime))

\* ---------------------------------------------------------------- C22
\* C22: a summarize call answers with the text of the first check that
\* fails, in the order (a) a timestamp does not parse, (b) the window is
\* longer than 7 days, (c) start is after end, (d) no message qualifies; the
\* text is returned, nothing is thrown; and when (a), (b) or (c) fails no
\* channel history has been fetched and no backend request made.
C22_ValidationOrder ==
  lastOp.op = "summarizeMessages" =>
    LET s == ParseDate(lastOp.start)
        e == ParseDate(lastOp.end)
        early(text) == /\ lastOp.pc = "returned" /\ lastOp.ret = Some(text)
                       /\ lastOp.fetches = 0 /\ lastOp.requests = 0
    IN /\ ~lastOp.threw
       /\ IF ~s.some \/ ~e.some THEN early(InvalidDateText)
          ELSE IF e.val - s.val > 7 * 24 * 60 * 60 * 1000 THEN early(MaxTimeframeText)
          ELSE IF s.val > e.val THEN early(OrderText)
          ELSE /\ lastOp.fetches >= 1
               /\ (lastOp.pc = "returned" /\ lastOp.ret # Some(SummaryErrorText)
                   /\ ~AnyQualifying(lastOp.history, lastOp.start, lastOp.end))
                    => (lastOp.ret = Some(NoMessagesText) /\ lastOp.requests = 0)

\* (d) has answered after a fetch that returned messages, none qualifying.
C22_Witness ==
  /\ lastOp.op = "summarizeMessages" /\ lastOp.pc = "returned"
  /\ lastOp.ret = Some(NoMessagesText)
  /\ lastOp.fetches = 2 /\ lastOp.requests = 0
  /\ Len(lastOp.history) = 3

\* ---------------------------------------------------------------- C23
\* C23: a window of exactly 7 x 24 h passes validation and one millisecond
\* more is refused with the maximum-timeframe text; start = end passes
\* validation and start > end is refused with the ordering text.
C23_WindowBoundaries ==
  (lastOp.op = "summarizeMessages" /\ ParseDate(lastOp.start).some /\ ParseDate(lastOp.end).some) =>
    LET s == ParseDate(lastOp.start).val
        e == ParseDate(lastOp.end).val
        passed == lastOp.fetches >= 1
                    /\ lastOp.ret \notin {Some(InvalidDateText), Some(MaxTimeframeText),
                                          Some(OrderText)}
    IN /\ e - s = 604800000 => passed
       /\ e - s = 604800001 => (lastOp.ret = Some(MaxTimeframeText) /\ lastOp.fetches = 0)
       /\ s = e => passed
       /\ s > e => (lastOp.ret = Some(OrderText) /\ lastOp.fetches = 0)

\* A window of exactly one week has been summarised.
C23_Witness ==
  /\ lastOp.op = "summarizeMessages" /\ lastOp.pc = "returned"
  /\ ParseDate(lastOp.start) = Some(0) /\ ParseDate(lastOp.end) = Some(604800000)
  /\ lastOp.requests = 1
  /\ lastOp.ret = Some(<<"summary of", lastOp.prompt>>)

\* ---------------------------------------------------------------- C35
\* Batch j of a channel's history: what the j-th fetch of the paging loop
\* returns when every batch before it was full.
Batch(h, j) == Chunk(h, (j - 1) * MaxPageSize)

\* The batch ends the paging: it is empty, or its oldest message is older
\* than the window's start.
EndsPaging(chunk, startDate) ==
  \/ Len(chunk) = 0
  \/ startDate.some /\ chunk[Len(chunk)].at < startDate.val

\* C35: the paging loop makes at most MaxPages fetches (50 in the code);
\* fetch number k asks for the messages before the oldest message of batch
\* k - 1; and every batch fetched before the last one was neither empty nor
\* reaching back before the window's start.
C35_PagingBounded ==
  /\ lastOp.fetches <= MaxPages
  /\ lastOp.pc = "fetching" =>
       /\ lastOp.fetches = lastOp.page
       /\ lastOp.paged = IF (lastOp.page - 1) * MaxPageSize <= Len(lastOp.history)
                           THEN (lastOp.page - 1) * MaxPageSize
                           ELSE Len(lastOp.history)
       /\ lastOp.page > 1 => lastOp.paged >= 1
  /\ \A j \in 1..(lastOp.fetches - 1) :
       ~EndsPaging(Batch(lastOp.history, j), ParseDate(lastOp.start))

\* The first batch reaches back before the window's start: the loop stopped
\* after one fetch although the channel holds older messages.
C35_Witness ==
  /\ lastOp.pc = "returned"
  /\ lastOp.fetches = 1
  /\ lastOp.fetches < MaxPages
  /\ Len(lastOp.history) > MaxPageSize
  /\ EndsPaging(Batch(lastOp.history, 1), ParseDate(lastOp.start))
  /\ lastOp.ret = Some(NoMessagesText)

\* ------------------------------------------- argument-parsing specification
\* One turn whose first backend response holds function_call items with
\* their argument texts as the backend sent them.

\* Output items of one response
MaxOutputItems == 2

\* An argument mapping, as the set of its (key, value) pairs
NoArgs == {}

\* `arguments` of a function_call item: absent, or a text
ArgTexts ==
  { None, Some("{}"), Some("{\"provider_id\":\"grok\"}"), Some("{\"provider_id\":"),
    Some("5"), Some("null") }

\* JSON.parse(argsText): it throws, or returns a value of some type
JsonParse(argsText) ==
  CASE argsText = "{}" -> [ok |-> TRUE, type |-> "object", val |-> {}]
    [] argsText = "{\"provider_id\":\"grok\"}" ->
         [ok |-> TRUE, type |-> "object", val |-> {<<"provider_id", "grok">>}]
    [] argsText = "5" -> [ok |-> TRUE, type |-> "number", val |-> {}]
    [] argsText = "null" -> [ok |-> TRUE, type |-> "null", val |-> {}]
    [] OTHER -> [ok |-> FALSE, type |-> "-", val |-> {}]

\* A parse whose failure is not caught: `threw` is set.
SafeParseArgumentsUncaught(item) ==
  LET parsed == JsonParse(IF item.arguments.some THEN item.arguments.val ELSE "{}")
  IN IF ~parsed.ok THEN [threw |-> TRUE, args |-> NoArgs]
     ELSE IF parsed.type = "object" THEN [threw |-> FALSE, args |-> parsed.val]
     ELSE [threw |-> FALSE, args |-> NoArgs]

\* safeParseArguments(item): the mapping, and whether anything left the
\* function as an exception
SafeParseArguments(item) ==
  LET parsed == JsonParse(IF item.arguments.some THEN item.arguments.val ELSE "{}")
  IN IF ~parsed.ok THEN [threw |-> FALSE, args |-> NoArgs]
     ELSE IF parsed.type = "object" THEN [threw |-> FALSE, args |-> parsed.val]
     ELSE [threw |-> FALSE, args |-> NoArgs]

\* args.key ?? ''
ArgOrEmpty(args, key) ==
  IF \E pair \in args : pair[1] = key
    THEN (CHOOSE pair \in args : pair[1] = key)[2]
    ELSE ""

\* What a catalog handler reads from its mapping, as the calls of this model
\* carry it: switch_provider's provider_id
HandlerArg(name, args) ==
  IF name = "switch_provider" THEN ArgOrEmpty(args, "provider_id") ELSE "-"

OutputItems ==
  { [type |-> "function_call", name |-> n, arguments |-> a] : n \in ToolCatalog, a \in ArgTexts }
    \cup { [type |-> "message", name |-> "-", arguments |-> None] }

\* response.output
OutputLists == UNION { [1..n -> OutputItems] : n \in 1..MaxOutputItems }

\* extractToolCalls(outputItems) of call k of turn t
ExtractToolCalls(outputItems, t, k) ==
  LET items == SelectSeq(outputItems, LAMBDA item : item.type = "function_call")
  IN [i \in 1..Len(items) |->
        [id |-> <<t, k, i>>, name |-> items[i].name,
         arguments |-> SafeParseArguments(items[i]).args,
         text |-> items[i].arguments,
         threw |-> SafeParseArguments(items[i]).threw]]

\* parseResponse(response): it throws when extractToolCalls does
ParseResponse(outputItems, t, k) ==
  LET toolCalls == ExtractToolCalls(outputItems, t, k)
  IN [ threw |-> \E i \in 1..Len(toolCalls) : toolCalls[i].threw,
       text |-> \E i \in 1..Len(outputItems) : outputItems[i].type = "message",
       calls |-> [i \in 1..Len(toolCalls) |->
                    [id |-> toolCalls[i].id, name |-> toolCalls[i].name,
                     arg |-> HandlerArg(toolCalls[i].name, toolCalls[i].arguments)]],
       thoughts |-> NoThoughts ]

ArgsInit ==
  /\ store = << >>
  /\ now = 0
  /\ ticks = 0
  /\ lastOp = [op |-> "init", toolCalls |-> <<>>]
  /\ providers = {}
  /\ pins = << >>
  /\ creds = ProviderIds
  /\ dflt \in ProviderIds
  /\ regLog = NoPasses
  /\ turn = [t \in Turns |-> IdleTurn]

\* The first chat call of the adapter resolves, or rejects when parsing the
\* backend's response throws.
FirstReturnsItems(t) ==
  /\ turn[t].pc = "first"
  /\ \E outputItems \in OutputLists :
       LET r == ParseResponse(outputItems, t, 1)
       IN /\ lastOp' = [op |-> "chat", toolCalls |-> ExtractToolCalls(outputItems, t, 1)]
          /\ IF r.threw
               THEN /\ turn' = [turn EXCEPT ![t] = Ended(@, "apology", "chat", <<>>)]
                    /\ UNCHANGED <<store, now, ticks, registry>>
               ELSE FirstResolves(t, r)

ArgsNext ==
  \/ \E c \in Channels : Mention(1, c)
  \/ FetchReturns(1)
  \/ FirstReturnsItems(1)
  \/ ToolSettles(1)
  \/ FollowUpReturns(1)
  \/ ChatThrows(1)
  \/ ReplySent(1)
  \/ ApologySent(1)

SpecArgs == ArgsInit /\ [][ArgsNext]_vars

\* The argument text of a call is no JSON, or JSON for something else than
\* an object.
Malformed(call) ==
  call.text.some /\ call.text.val \notin {"{}", "{\"provider_id\":\"grok\"}"}

MaxTextLen == 5

\* The largest maxLength handed to splitMessage (2000 by default)
MaxChunkLen == 3

\* A text is the sequence of its characters; "\n" is the line feed.
Chars == {"a", "\n"}

Texts == UNION { [1..n -> Chars] : n \in 0..MaxTextLen }

RECURSIVE SplitLines(_, _, _)
\* text.split('\n'): the lines of the text from character i on, `line` being
\* the line read so far
SplitLines(text, i, line) ==
  IF i > Len(text) THEN <<line>>
  ELSE IF text[i] = "\n" THEN <<line>> \o SplitLines(text, i + 1, <<>>)
  ELSE SplitLines(text, i + 1, Append(line, text[i]))

RECURSIVE SplitLoop(_, _, _, _, _)
\* The for loop of splitMessage from line i on, and the final push
SplitLoop(lines, i, chunks, currentChunk, maxLength) ==
  IF i > Len(lines) THEN Append(chunks, currentChunk)
  ELSE LET flush == Len(currentChunk) + Len(lines[i]) + 1 > maxLength
           chunks1 == IF flush THEN Append(chunks, currentChunk) ELSE chunks
           current1 == IF flush THEN <<>> ELSE currentChunk
       IN SplitLoop(lines, i + 1, chunks1,
                    current1 \o (IF Len(current1) > 0 THEN <<"\n">> ELSE <<>>) \o lines[i],
                    maxLength)

\* splitMessage(text, maxLength)
SplitMessage(text, maxLength) ==
  IF Len(text) <= maxLength THEN <<text>>
  ELSE SplitLoop(SplitLines(text, 1, <<>>), 1, <<>>, <<>>, maxLength)

SplitInit ==
  /\ store = << >>
  /\ now = 0
  /\ ticks = 0
  /\ lastOp = [op |-> "init", text |-> <<>>, maxLength |-> 0, chunks |-> <<>>]
  /\ providers = {}
  /\ pins = << >>
  /\ creds = {}
  /\ dflt = "openai"
  /\ regLog = NoPasses
  /\ turn = << >>

\* One call of splitMessage
SplitCalled(text, maxLength) ==
  /\ lastOp.op = "init"
  /\ lastOp' = [op |-> "splitMessage", text |-> text, maxLength |-> maxLength,
                chunks |-> SplitMessage(text, maxLength)]
  /\ UNCHANGED <<store, now, ticks, registry, turn>>

SplitNext == \E text \in Texts, maxLength \in 1..MaxChunkLen : SplitCalled(text, maxLength)

SpecSplit == SplitInit /\ [][SplitNext]_vars

\* ---------------------------------------------------------------- C26
\* C26 as stated: every string of the array splitMessage(text, maxLength)
\* returns is at most maxLength characters long.
C26_ChunksWithinLimit ==
  lastOp.op = "splitMessage" =>
    \A i \in 1..Len(lastOp.chunks) : Len(lastOp.chunks[i]) <= lastOp.maxLength

\* ----------------------------------------------- twitter-repost specification
\* events/twitterRepost.ts.  A message content is a sequence of pieces, each
\* a fixed string: a whole status link of either domain, a query string, a
\* blank, a word.  The regular expressions are evaluated on the characters
\* these pieces stand for.

\* Pieces of one message content
MaxContentLen == 4

LinkPieces == {"https://twitter.com/u/status/1", "https://x.com/u/status/1"}

Pieces == LinkPieces \cup {"?s=20", " ", "look"}

Contents == UNION { [1..n -> Pieces] : n \in 1..MaxContentLen }

\* The least and the greatest element of a non-empty set of numbers
Least(S) == CHOOSE x \in S : \A y \in S : x <= y

Greatest(S) == CHOOSE x \in S : \A y \in S : x >= y

RECURSIVE NonBlankRun(_, _)
\* \S+ : the last piece of the run of non-blank pieces that piece j starts
NonBlankRun(content, j) ==
  IF j < Len(content) /\ content[j + 1] # " " THEN NonBlankRun(content, j + 1) ELSE j

\* content.match(re) with re = /(https?:\/\/(twitter|x)\.com\/.+\/status\/\S+)/ :
\* the match starts at the first link; `.+` is greedy and runs over blanks,
\* up to the last "/status/" of the content; \S+ then runs to the next blank.
\* The pieces from..to matched, or None (null)
Match(content) ==
  LET links == {i \in 1..Len(content) : content[i] \in LinkPieces}
  IN IF links = {} THEN None
     ELSE Some([from |-> Least(links), to |-> NonBlankRun(content, Greatest(links))])

\* p1.replace(/(twitter\.com|x\.com)/, 'fixvx.com'): the first domain of the
\* matched text, which is the domain of its first piece
ReplaceDomain(matched) == [matched EXCEPT ![1] = "https://fixvx.com/u/status/1"]

\* .replace(/\?.*/, ''): the matched text up to its first "?"
StripQuery(matched) ==
  LET queries == {i \in 1..Len(matched) : matched[i] = "?s=20"}
  IN IF queries = {} THEN matched ELSE SubSeq(matched, 1, Least(queries) - 1)

\* replaceString(input), input being the matched text
ReplaceString(matched) == StripQuery(ReplaceDomain(matched))

\* message.content.replace(twitterLink[0], replaceString(twitterLink[0]))
NewMessage(content, m) ==
  SubSeq(content, 1, m.from - 1)
    \o ReplaceString(SubSeq(content, m.from, m.to))
    \o SubSeq(content, m.to + 1, Len(content))

\* One execute(message) call: the message, where the handler is, and what
\* it has done to the message, through the webhook and to the webhook.
Repost(bot, type, content) ==
  [ op |-> "execute", bot |-> bot, type |-> type, content |-> content, pc |-> "start",
    deleted |-> FALSE, posted |-> None, webhook |-> "none" ]

RepostInit ==
  /\ store = << >>
  /\ now = 0
  /\ ticks = 0
  /\ \E bot \in BOOLEAN, type \in {"GuildText", "DM"}, content \in Contents :
       lastOp = Repost(bot, type, content)
  /\ providers = {}
  /\ pins = << >>
  /\ creds = {}
  /\ dflt = "openai"
  /\ regLog = NoPasses
  /\ turn = << >>

\* execute(message), lines 15-28: the sanity checks, the match, and the
\* createWebhook call.
RepostExecute ==
  /\ lastOp.pc = "start"
  /\ lastOp' = [lastOp EXCEPT !.pc =
                  IF lastOp.bot \/ lastOp.type # "GuildText" \/ ~Match(lastOp.content).some
                    THEN "returned" ELSE "creating"]
  /\ UNCHANGED <<store, now, ticks, registry, turn>>

\* createWebhook resolves (lines 29-31): the original is deleted and the
\* new content sent through the webhook, both at once.
WebhookCreated ==
  /\ lastOp.pc = "creating"
  /\ lastOp' = [lastOp EXCEPT !.pc = "sending", !.webhook = "live", !.deleted = TRUE,
                  !.posted = Some(NewMessage(lastOp.content, Match(lastOp.content).val))]
  /\ UNCHANGED <<store, now, ticks, registry, turn>>

\* createWebhook rejects: execute throws.
WebhookRefused ==
  /\ lastOp.pc = "creating"
  /\ lastOp' = [lastOp EXCEPT !.pc = "threw"]
  /\ UNCHANGED <<store, now, ticks, registry, turn>>

\* Promise.all resolves (lines 31-34): the webhook is deleted.
RepostSent ==
  /\ lastOp.pc = "sending"
  /\ lastOp' = [lastOp EXCEPT !.pc = "returned", !.webhook = "deleted"]
  /\ UNCHANGED <<store, now, ticks, registry, turn>>

\* message.delete() or webhook.send() rejects: Promise.all rejects and
\* execute throws before webhook.delete().
RepostFails ==
  /\ lastOp.pc = "sending"
  /\ \E which \in {"delete", "send"} :
       lastOp' = [lastOp EXCEPT !.pc = "threw",
                                !.deleted = (which # "delete"),
                                !.posted = IF which = "send" THEN None ELSE @]
  /\ UNCHANGED <<store, now, ticks, registry, turn>>

RepostNext ==
  \/ RepostExecute
  \/ WebhookCreated
  \/ WebhookRefused
  \/ RepostSent
  \/ RepostFails

SpecRepost == RepostInit /\ [][RepostNext]_vars

RECURSIVE LinksRewritten(_, _)
\* The content with every status link on fixvx.com and without its query
\* string: from piece i on
LinksRewritten(content, i) ==
  IF i > Len(content) THEN <<>>
  ELSE IF content[i] \in LinkPieces
    THEN LET to == NonBlankRun(content, i)
         IN StripQuery(ReplaceDomain(SubSeq(content, i, to))) \o LinksRewritten(content, to + 1)
  ELSE <<content[i]>> \o LinksRewritten(content, i + 1)

\* ---------------------------------------------------------------- C27
\* C27 as stated: whenever the handler has returned for a message that holds
\* an https twitter.com or x.com status link, the original message has been
\* deleted and the content posted is the message's with the link on
\* fixvx.com and without its query parameters, the rest unchanged.
C27_LinkReposted ==
  (lastOp.pc = "returned" /\ \E i \in 1..Len(lastOp.content) : lastOp.content[i] \in LinkPieces)
    => /\ lastOp.deleted
       /\ lastOp.posted = Some(LinksRewritten(lastOp.content, 1))

\* ---------------------------------------------------------------- C40
\* C40 as stated: when the handler has finished, by returning or by
\* throwing, no webhook it created is left undeleted.
C40_WebhookDeleted ==
  lastOp.pc \in {"returned", "threw"} => lastOp.webhook # "live"

\* --------------------------------------------- provider-mismatch specification
\* One turn on a channel whose live state was persisted by one provider while
\* the channel resolves to any provider: a turn that started before a
\* switch_provider of an overlapping turn and persisted after it leaves such
\* a state behind.

\* Entry lists of earlier turns, as handleMention persists them for
\* provider p
PersistedEntries(p) ==
  { <<DevEntry(p), HistEntry("user", 1), UserEntry(0), AssistantEntry(0, 1)>>,
    <<DevEntry(p), UserEntry(0), ToolCallEntry(<<0, 1, 1>>, "generate_image", "-"),
      ToolResultEntry(<<0, 1, 1>>, "generate_image", <<"output of", "generate_image">>),
      AssistantEntry(0, 2)>> }

MismatchInit ==
  /\ \E p \in ProviderIds, th \in SampleThoughts :
       \E es \in PersistedEntries(p) :
         store = MapSet(<< >>, FirstChannel, State(p, es, 0, th))
  /\ now = 0
  /\ ticks = 0
  /\ lastOp = NoOp
  /\ providers = ProviderIds
  /\ pins \in {<< >>} \cup {MapSet(<< >>, FirstChannel, q) : q \in ProviderIds}
  /\ creds = ProviderIds
  /\ dflt = "openai"
  /\ regLog = [passes |-> 1, built |-> Cardinality(ProviderIds)]
  /\ turn = [t \in Turns |-> IdleTurn]

MismatchNext ==
  \/ \E c \in Channels : Mention(1, c)
  \/ FirstReturns(1)
  \/ ToolSettles(1)
  \/ FollowUpReturns(1)
  \/ ChatThrows(1)
  \/ ReplySent(1)
  \/ ApologySent(1)

SpecMismatch == MismatchInit /\ [][MismatchNext]_vars

\* ---------------------------------------------------------------- C30
\* C30: a turn that finds the stored state under another provider id than
\* the one it resolved replaces the leading developer entry and nothing
\* else: the list keeps its length, every later entry stays as it was and
\* where it was, and the turn's working copy is that list and the user entry.
C30_OnlyDeveloperEntryReplaced ==
  \A t \in Turns :
    LET tr == turn[t]
    IN (tr.pc = "first" /\ tr.pre.some /\ tr.pre.val.providerId # tr.provider) =>
         LET old == tr.pre.val.entries
             new == store[tr.chan].entries
         IN /\ store[tr.chan].providerId = tr.provider
            /\ Len(new) = Len(old)
            /\ new[1] = DevEntry(tr.provider)
            /\ \A i \in 2..Len(old) : new[i] = old[i]
            /\ tr.working = Append(new, UserEntry(t))

\* A state persisted by openai, with a function call and its result, has
\* been taken over by a turn that resolved grok.
C30_Witness ==
  /\ turn[1].pc = "first"
  /\ turn[1].pre.some /\ turn[1].pre.val.providerId = "openai"
  /\ turn[1].provider = "grok"
  /\ Len(turn[1].pre.val.entries) = 5
  /\ store[FirstChannel].entries[1] = DevEntry("grok")
  /\ store[FirstChannel].entries[3].kind = "tool_call"

\* ------------------------------------------- host-handled filter specification
\* One invocation of handleMention whose first response holds function calls
\* of any name: catalog tools, the backend-native tools the adapters
\* advertise without the host-handled flag, and a name nobody advertises.
\* lastOp records the calls the response returned.

CallNames == ToolCatalog \cup {"web_search", "unknown_tool"}

FilterPlans ==
  {<<>>} \cup { <<Call(n, "grok")>> : n \in CallNames }
         \cup { <<Call(n1, "grok"), Call(n2, "grok")>> : n1, n2 \in CallNames }

FilterResponses(p, t) ==
  { Response(Shape(x, plan, FALSE), p, t, 1) : x \in BOOLEAN, plan \in FilterPlans }

FilterInit ==
  /\ store = << >>
  /\ now = 0
  /\ ticks = 0
  /\ lastOp = [op |-> "init", calls |-> <<>>]
  /\ providers = {}
  /\ pins = << >>
  /\ creds = ProviderIds
  /\ dflt \in ProviderIds
  /\ regLog = NoPasses
  /\ turn = [t \in Turns |-> IdleTurn]

\* The first chat call resolves with function calls of any name.
FirstReturnsMixed(t) ==
  /\ turn[t].pc = "first"
  /\ \E r \in FilterResponses(turn[t].activeProvider, t) :
       /\ lastOp' = [op |-> "chat", calls |-> r.calls]
       /\ FirstResolves(t, r)

FilterNext ==
  \/ \E c \in Channels : Mention(1, c)
  \/ FetchReturns(1)
  \/ FirstReturnsMixed(1)
  \/ ToolSettles(1)
  \/ FollowUpReturns(1)
  \/ ChatThrows(1)
  \/ ReplySent(1)
  \/ ApologySent(1)

SpecFilter == FilterInit /\ [][FilterNext]_vars

\* ---------------------------------------------------------------- C32
\* C32: a handler runs only for a returned call whose name the answering
\* provider advertises with the host-handled flag; a call of any other name
\* gets no handler, and a response without a host-handled call is followed
\* by no tool loop and no second chat call.
C32_OnlyHostHandledExecuted ==
  LET tr == turn[1]
      returned == lastOp.calls
  IN /\ \A e \in 1..Len(tr.execs) :
          /\ HostHandled(tr.provider, tr.execs[e].name)
          /\ \E i \in 1..Len(returned) :
               returned[i].id = tr.execs[e].id /\ returned[i].name = tr.execs[e].name
     /\ \A i \in 1..Len(returned) :
          ~HostHandled(tr.provider, returned[i].name)
            => \A e \in 1..Len(tr.execs) : tr.execs[e].id # returned[i].id
     /\ (lastOp.op = "chat"
           /\ \A i \in 1..Len(returned) : ~HostHandled(tr.provider, returned[i].name))
          => /\ tr.pc \notin {"tool", "followup"}
             /\ Len(tr.chatCalls) <= 1
             /\ tr.execs = <<>>
             /\ tr.toolResults = <<>>

\* A response held a backend-native call and a catalog call: the loop is
\* over, one handler ran, and the follow-up call is out.
C32_Witness ==
  /\ turn[1].pc = "followup"
  /\ Len(lastOp.calls) = 2
  /\ lastOp.calls[1].name = "web_search"
  /\ lastOp.calls[2].name = "summarize_messages"
  /\ Len(turn[1].execs) = 1
  /\ turn[1].execs[1].id = lastOp.calls[2].id

\* --------------------------------------------- continuation-data specification
\* One invocation of handleMention on a channel that is fresh or holds the
\* state an earlier turn persisted under the provider the channel resolves
\* to, with or without continuation data of that provider.  lastOp logs the
\* chat calls: the provider and the continuation data of the first request,
\* and the continuation data each response returned.

ContinuationInit ==
  /\ \/ store = << >> /\ pins = << >>
     \/ \E p \in ProviderIds :
          \E th \in {NoThoughts} \cup {Thoughts(q, 0, 2) : q \in {p} \cap {"grok"}} :
            \E es \in PersistedEntries(p) :
              /\ store = MapSet(<< >>, FirstChannel, State(p, es, 0, th))
              /\ pins = MapSet(<< >>, FirstChannel, p)
  /\ now = 0
  /\ ticks = 0
  /\ lastOp = [op |-> "init", calls |-> 0, to |-> "-", given |-> NoThoughts,
               first |-> NoThoughts, final |-> NoThoughts]
  /\ providers = ProviderIds
  /\ creds = ProviderIds
  /\ dflt = "openai"
  /\ regLog = [passes |-> 1, built |-> Cardinality(ProviderIds)]
  /\ turn = [t \in Turns |-> IdleTurn]

FirstReturnsLogged(t) ==
  /\ turn[t].pc = "first"
  /\ \E r \in FirstResponses(turn[t].activeProvider, t) :
       /\ lastOp' = [op |-> "chat", calls |-> 1, to |-> turn[t].chatCalls[1].to,
                     given |-> turn[t].chatCalls[1].thoughts,
                     first |-> r.thoughts, final |-> r.thoughts]
       /\ FirstResolves(t, r)

FollowUpReturnsLogged(t) ==
  /\ turn[t].pc = "followup"
  /\ \E r \in FollowUpResponses(turn[t].activeProvider, t) :
       /\ lastOp' = [lastOp EXCEPT !.calls = 2, !.final = r.thoughts]
       /\ FollowUpResolves(t, r)

ContinuationNext ==
  \/ \E c \in Channels : Mention(1, c)
  \/ FetchReturns(1)
  \/ FirstReturnsLogged(1)
  \/ ToolSettles(1)
  \/ FollowUpReturnsLogged(1)
  \/ ChatThrows(1)
  \/ ReplySent(1)
  \/ ApologySent(1)

SpecContinuation == ContinuationInit /\ [][ContinuationNext]_vars

\* ---------------------------------------------------------------- C33
\* C33 as stated: the continuation data stored at the end of a successful
\* turn is what the turn's final chat call returned.
C33_AsStated ==
  turn[1].pc = "done" => store[turn[1].chan].thoughts = lastOp.final

\* C33: the continuation data stored at the end of a successful turn is what
\* the turn's final chat call returned if it returned any; if not, what the
\* first call returned, if any; if not, what the first request was given,
\* i.e. the continuation data of the state the turn started from.
C33_StoredContinuation ==
  turn[1].pc = "done" =>
    /\ turn[1].chan \in DOMAIN store
    /\ store[turn[1].chan].thoughts =
         Coalesce(lastOp.final, Coalesce(lastOp.first, lastOp.given))
    /\ lastOp.calls = 1 => lastOp.final = lastOp.first

\* A turn with a tool loop has ended; its follow-up call returned no
\* continuation data, and the state holds the first call's.
C33_Witness ==
  /\ turn[1].pc = "done"
  /\ lastOp.calls = 2
  /\ lastOp.final = NoThoughts
  /\ lastOp.first = Thoughts("grok", 1, 1)
  /\ store[turn[1].chan].thoughts = Thoughts("grok", 1, 1)

====
